---- MODULE Spec2Model ----
(***************************************************************************)
(* Cell Cycle board game: the rules engine (GameEngine), its event stream  *)
(* and the board constants it depends on.                                  *)
(*                                                                         *)
(* `state` is GameEngine.state.  Every public operation of the engine is   *)
(* one action that runs the whole method, nested calls and event emission  *)
(* included.  The target calculation is a pure function; it is modelled    *)
(* once (loopBody) and used both by the engine operations and by a        *)
(* specification of its own that runs the loop one iteration per step.     *)
(***************************************************************************)
EXTENDS Integers, Sequences, FiniteSets, TLC

VARIABLES
    state,       \* GameEngine.state: players, currentPlayerIndex, diceValue, phase, selectedPieceId
    events,      \* the events passed to EventBus.emit by the last operation, in order
    phases,      \* the values assigned to state.phase by the last operation, in order
    lastOp,      \* the last public operation called: name, argument, return value
    opCount,     \* number of public operations called so far
    inFlight,    \* history: pieceMoving events emitted since the last pieceLanded
    respecting,  \* history: every call so far was made in the phase it is meant for
    calc,        \* the locals of one run of calculateTarget (loop specification)
    numPlayersArg,  \* the argument the constructor was called with
    pending,     \* history: the last pieceMoving event with no pieceLanded after it
    bus,         \* EventBusClass.handlers and the outcome of the last emit (bus specification)
    orch,        \* the orchestrator of init() and the UIManager: DOM flags, timers, moves awaited
    springs,     \* createSpringSystem: pieces (key -> PieceSpringSet) and the animateHop under way
    springOp,    \* history: the last call, timer or frame of the spring scheduler
    scene        \* the locals of one run of a loop of the scene modules (loop specification)

vars == <<state, events, phases, lastOp, opCount, inFlight, respecting, calc,
          numPlayersArg, pending, bus, orch, springs, springOp, scene>>

----------------------------------------------------------------------------
(* Bounds of the model *)

MaxOps == 6          \* public operations per behaviour
MaxNumPlayers == 2   \* largest numPlayers handed to the constructor
MaxPieceId == 3      \* SelectPiece arguments range over 0..MaxPieceId (3 is no piece)
MaxConstructorArg == 5   \* largest numPlayers of a game followed from its construction
MaxSubscribers == 2  \* distinct handler functions handed to EventBus.on
MaxRegistrations == 3    \* longest EventBusClass.handlers
MaxEmits == 2        \* calls of EventBus.emit per behaviour

----------------------------------------------------------------------------
(* Program constants *)

TOTAL_CELLS == 61
CHECKPOINT_CELLS == {25, 52, 56}
PLAYER_COLORS_length == 4
PIECES_PER_PLAYER == 3
DICE_SIDES == 6

null == -1

Min(a, b) == IF a < b THEN a ELSE b

isCheckpoint(index) == index \in CHECKPOINT_CELLS

----------------------------------------------------------------------------
(* calculateTarget *)

\* loopBody with the checkpoint stop left out
loopBody_NoStop(startCell, current) ==
    LET next == current + 1 IN
    IF next >= TOTAL_CELLS
    THEN [ret |-> TRUE, value |-> TOTAL_CELLS - 1]
    ELSE [ret |-> FALSE, value |-> next]

\* loopBody with the end test off by one (> for >=)
loopBody_OffByOne(startCell, current) ==
    LET next == current + 1 IN
    IF next > TOTAL_CELLS
    THEN [ret |-> TRUE, value |-> TOTAL_CELLS - 1]
    ELSE IF isCheckpoint(next) /\ startCell < next
         THEN [ret |-> TRUE, value |-> next]
         ELSE [ret |-> FALSE, value |-> next]

\* loopBody that clamps to the track length instead of the last cell
loopBody_ClampAtLength(startCell, current) ==
    LET next == current + 1 IN
    IF next >= TOTAL_CELLS
    THEN [ret |-> TRUE, value |-> TOTAL_CELLS]
    ELSE IF isCheckpoint(next) /\ startCell < next
         THEN [ret |-> TRUE, value |-> next]
         ELSE [ret |-> FALSE, value |-> next]

\* One pass through the body of the for loop, entered with `current`:
\* ret = TRUE when the body returns `value`, FALSE when it falls through
\* with current = value.
loopBody(startCell, current) ==
    LET next == current + 1 IN
    IF next >= TOTAL_CELLS
    THEN [ret |-> TRUE, value |-> TOTAL_CELLS - 1]
    ELSE IF isCheckpoint(next) /\ startCell < next
         THEN [ret |-> TRUE, value |-> next]
         ELSE [ret |-> FALSE, value |-> next]

\* calcLoop with the loop test off by one (<= for <)
RECURSIVE calcLoop_ExtraStep(_, _, _, _)
calcLoop_ExtraStep(startCell, steps, i, current) ==
    IF i <= steps
    THEN LET b == loopBody(startCell, current) IN
         IF b.ret THEN b.value ELSE calcLoop_ExtraStep(startCell, steps, i + 1, b.value)
    ELSE current

\* The for loop of calculateTarget from iteration i on (b is one pass of the
\* body, taken once for each iteration)
RECURSIVE calcLoop(_, _, _, _)
calcLoop(startCell, steps, i, current) ==
    IF i < steps
    THEN CHOOSE r \in {IF b.ret THEN b.value
                       ELSE calcLoop(startCell, steps, i + 1, b.value) :
                          b \in {loopBody(startCell, current)}} : TRUE
    ELSE current

calculateTarget(startCell, steps) == calcLoop(startCell, steps, 0, startCell)

----------------------------------------------------------------------------
(* The engine's operations, as functions of an execution record            *)
(* x = [state, events, phases, ret]                                        *)

\* EventBus.emit(event) inside an engine operation: the subscriber runs now,
\* seeing the state as it is at this point of the operation
emit(x, event) ==
    [x EXCEPT !.events = Append(@, event), !.snaps = Append(@, x.state)]

setPhase(x, p) == [x EXCEPT !.state.phase = p, !.phases = Append(@, p)]

getCurrentPlayer(s) == s.players[s.currentPlayerIndex]

\* player.pieces.find((p) => p.id === pieceId): the index of the first
\* piece with that id, or null
findPiece(player, pieceId) ==
    LET hits == {k \in DOMAIN player.pieces : player.pieces[k].id = pieceId} IN
    IF hits = {} THEN null
    ELSE CHOOSE k \in hits : \A j \in hits : k <= j

\* the constructor without the clamp to the number of colours
GameEngine_NoClamp(numPlayers) ==
    [players |-> [i \in 0..(numPlayers - 1) |->
                    [id |-> i,
                     pieces |-> [p \in 0..(PIECES_PER_PLAYER - 1) |->
                                   [id |-> p, cellIndex |-> 0, isAtCheckpoint |-> FALSE]]]],
     currentPlayerIndex |-> 0,
     diceValue |-> null,
     phase |-> "rolling",
     selectedPieceId |-> null]

GameEngine(numPlayers) ==
    LET count == Min(numPlayers, PLAYER_COLORS_length) IN
    [players |-> [i \in 0..(count - 1) |->
                    [id |-> i,
                     pieces |-> [p \in 0..(PIECES_PER_PLAYER - 1) |->
                                   [id |-> p, cellIndex |-> 0, isAtCheckpoint |-> FALSE]]]],
     currentPlayerIndex |-> 0,
     diceValue |-> null,
     phase |-> "rolling",
     selectedPieceId |-> null]

\* nextTurn that forgets to clear the selection
nextTurn_KeepSelection(x) ==
    LET n  == Cardinality(DOMAIN x.state.players)
        x1 == [x EXCEPT !.state.currentPlayerIndex = (@ + 1) % n,
                        !.state.diceValue = null]
        x2 == setPhase(x1, "rolling")
        x3 == emit(x2, [type |-> "turnEnd"])
    IN emit(x3, [type |-> "phaseChanged", phase |-> "rolling"])

\* nextTurn that forgets to clear the dice value
nextTurn_KeepDice(x) ==
    LET n  == Cardinality(DOMAIN x.state.players)
        x1 == [x EXCEPT !.state.currentPlayerIndex = (@ + 1) % n,
                        !.state.selectedPieceId = null]
        x2 == setPhase(x1, "rolling")
        x3 == emit(x2, [type |-> "turnEnd"])
    IN emit(x3, [type |-> "phaseChanged", phase |-> "rolling"])

nextTurn(x) ==
    LET n  == Cardinality(DOMAIN x.state.players)
        x1 == [x EXCEPT !.state.currentPlayerIndex = (@ + 1) % n,
                        !.state.diceValue = null,
                        !.state.selectedPieceId = null]
        x2 == setPhase(x1, "rolling")
        x3 == emit(x2, [type |-> "turnEnd"])
    IN emit(x3, [type |-> "phaseChanged", phase |-> "rolling"])

\* rollDice without the check for a movable piece
rollDice_NoSkip(x, value) ==
    LET x1 == setPhase([x EXCEPT !.state.diceValue = value], "selecting")
        x2 == emit(x1, [type |-> "diceRolled", value |-> value])
        x3 == emit(x2, [type |-> "phaseChanged", phase |-> "selecting"])
    IN [x3 EXCEPT !.ret = value]

rollDice(x, value) ==
    LET x1 == setPhase([x EXCEPT !.state.diceValue = value], "selecting")
        x2 == emit(x1, [type |-> "diceRolled", value |-> value])
        player == getCurrentPlayer(x2.state)
        hasMovablePiece == \E k \in DOMAIN player.pieces : ~player.pieces[k].isAtCheckpoint
        x3 == emit(x2, [type |-> "phaseChanged", phase |-> "selecting"])
    IN IF ~hasMovablePiece
       THEN [nextTurn(x3) EXCEPT !.ret = value]
       ELSE [x3 EXCEPT !.ret = value]

\* selectPiece that emits pieceMoving before pieceSelected
selectPiece_MovingFirst(x, pieceId) ==
    LET s      == x.state
        player == getCurrentPlayer(s)
        k      == findPiece(player, pieceId)
    IN IF k = null THEN x
       ELSE IF player.pieces[k].isAtCheckpoint THEN x
       ELSE IF s.diceValue = null THEN x
       ELSE IF s.phase # "selecting" THEN x
       ELSE LET from == player.pieces[k].cellIndex
                to   == calculateTarget(from, s.diceValue)
            IN IF to = from THEN x
               ELSE LET x1 == setPhase([x EXCEPT !.state.selectedPieceId = pieceId], "moving")
                        x2 == emit(x1, [type |-> "pieceMoving", playerId |-> player.id,
                                        pieceId |-> pieceId, from |-> from, to |-> to])
                    IN emit(x2, [type |-> "pieceSelected", playerId |-> player.id,
                                 pieceId |-> pieceId])

\* selectPiece that already puts the piece on its target cell
selectPiece_MovesPiece(x, pieceId) ==
    LET s      == x.state
        player == getCurrentPlayer(s)
        k      == findPiece(player, pieceId)
    IN IF k = null THEN x
       ELSE IF player.pieces[k].isAtCheckpoint THEN x
       ELSE IF s.diceValue = null THEN x
       ELSE IF s.phase # "selecting" THEN x
       ELSE LET from == player.pieces[k].cellIndex
                to   == calculateTarget(from, s.diceValue)
            IN IF to = from THEN x
               ELSE LET x0 == [x EXCEPT
                                 !.state.players[s.currentPlayerIndex].pieces[k].cellIndex = to]
                        x1 == setPhase([x0 EXCEPT !.state.selectedPieceId = pieceId], "moving")
                        x2 == emit(x1, [type |-> "pieceSelected", playerId |-> player.id,
                                        pieceId |-> pieceId])
                    IN emit(x2, [type |-> "pieceMoving", playerId |-> player.id,
                                 pieceId |-> pieceId, from |-> from, to |-> to])

\* selectPiece without the checkpoint-lock test
selectPiece_NoLockTest(x, pieceId) ==
    LET s      == x.state
        player == getCurrentPlayer(s)
        k      == findPiece(player, pieceId)
    IN IF k = null THEN x
       ELSE IF s.diceValue = null THEN x
       ELSE IF s.phase # "selecting" THEN x
       ELSE LET from == player.pieces[k].cellIndex
                to   == calculateTarget(from, s.diceValue)
            IN IF to = from THEN x
               ELSE LET x1 == setPhase([x EXCEPT !.state.selectedPieceId = pieceId], "moving")
                        x2 == emit(x1, [type |-> "pieceSelected", playerId |-> player.id,
                                        pieceId |-> pieceId])
                    IN emit(x2, [type |-> "pieceMoving", playerId |-> player.id,
                                 pieceId |-> pieceId, from |-> from, to |-> to])

\* selectPiece that records the selection but leaves the phase at selecting
selectPiece_KeepPhase(x, pieceId) ==
    LET s      == x.state
        player == getCurrentPlayer(s)
        k      == findPiece(player, pieceId)
    IN IF k = null THEN x
       ELSE IF player.pieces[k].isAtCheckpoint THEN x
       ELSE IF s.diceValue = null THEN x
       ELSE IF s.phase # "selecting" THEN x
       ELSE LET from == player.pieces[k].cellIndex
                to   == calculateTarget(from, s.diceValue)
            IN IF to = from THEN x
               ELSE LET x1 == [x EXCEPT !.state.selectedPieceId = pieceId]
                        x2 == emit(x1, [type |-> "pieceSelected", playerId |-> player.id,
                                        pieceId |-> pieceId])
                    IN emit(x2, [type |-> "pieceMoving", playerId |-> player.id,
                                 pieceId |-> pieceId, from |-> from, to |-> to])

selectPiece(x, pieceId) ==
    LET s      == x.state
        player == getCurrentPlayer(s)
        k      == findPiece(player, pieceId)
    IN IF k = null THEN x
       ELSE IF player.pieces[k].isAtCheckpoint THEN x
       ELSE IF s.diceValue = null THEN x
       ELSE IF s.phase # "selecting" THEN x
       ELSE LET from == player.pieces[k].cellIndex
                to   == calculateTarget(from, s.diceValue)
            IN IF to = from THEN x
               ELSE LET x1 == setPhase([x EXCEPT !.state.selectedPieceId = pieceId], "moving")
                        x2 == emit(x1, [type |-> "pieceSelected", playerId |-> player.id,
                                        pieceId |-> pieceId])
                    IN emit(x2, [type |-> "pieceMoving", playerId |-> player.id,
                                 pieceId |-> pieceId, from |-> from, to |-> to])

\* onMoveComplete that moves the piece but leaves its lock flag alone
onMoveComplete_NoLock(x) ==
    LET s      == x.state
        player == getCurrentPlayer(s)
        k      == findPiece(player, s.selectedPieceId)
    IN IF k = null \/ s.diceValue = null THEN x
       ELSE LET target == calculateTarget(player.pieces[k].cellIndex, s.diceValue)
                x1 == [x EXCEPT
                         !.state.players[s.currentPlayerIndex].pieces[k].cellIndex = target]
                x2 == emit(x1, [type |-> "pieceLanded", playerId |-> player.id,
                                pieceId |-> player.pieces[k].id, cellIndex |-> target])
                x3 == setPhase(x2, "turnEnd")
            IN emit(x3, [type |-> "phaseChanged", phase |-> "turnEnd"])

\* onMoveComplete that adds the dice value to the cell
onMoveComplete_PlainAdd(x) ==
    LET s      == x.state
        player == getCurrentPlayer(s)
        k      == findPiece(player, s.selectedPieceId)
    IN IF k = null \/ s.diceValue = null THEN x
       ELSE LET target == player.pieces[k].cellIndex + s.diceValue
                x1 == [x EXCEPT
                         !.state.players[s.currentPlayerIndex].pieces[k].cellIndex = target,
                         !.state.players[s.currentPlayerIndex].pieces[k].isAtCheckpoint =
                             isCheckpoint(target)]
                x2 == emit(x1, [type |-> "pieceLanded", playerId |-> player.id,
                                pieceId |-> player.pieces[k].id, cellIndex |-> target])
                x3 == setPhase(x2, "turnEnd")
            IN emit(x3, [type |-> "phaseChanged", phase |-> "turnEnd"])

\* onMoveComplete that ends the turn itself instead of entering turnEnd
onMoveComplete_EndsTurn(x) ==
    LET s      == x.state
        player == getCurrentPlayer(s)
        k      == findPiece(player, s.selectedPieceId)
    IN IF k = null \/ s.diceValue = null THEN x
       ELSE LET target == calculateTarget(player.pieces[k].cellIndex, s.diceValue)
                x1 == [x EXCEPT
                         !.state.players[s.currentPlayerIndex].pieces[k].cellIndex = target,
                         !.state.players[s.currentPlayerIndex].pieces[k].isAtCheckpoint =
                             isCheckpoint(target)]
                x2 == emit(x1, [type |-> "pieceLanded", playerId |-> player.id,
                                pieceId |-> player.pieces[k].id, cellIndex |-> target])
            IN nextTurn(x2)

onMoveComplete(x) ==
    LET s      == x.state
        player == getCurrentPlayer(s)
        k      == findPiece(player, s.selectedPieceId)
    IN IF k = null \/ s.diceValue = null THEN x
       ELSE LET target == calculateTarget(player.pieces[k].cellIndex, s.diceValue)
                x1 == [x EXCEPT
                         !.state.players[s.currentPlayerIndex].pieces[k].cellIndex = target,
                         !.state.players[s.currentPlayerIndex].pieces[k].isAtCheckpoint =
                             isCheckpoint(target)]
                x2 == emit(x1, [type |-> "pieceLanded", playerId |-> player.id,
                                pieceId |-> player.pieces[k].id, cellIndex |-> target])
                x3 == setPhase(x2, "turnEnd")
            IN emit(x3, [type |-> "phaseChanged", phase |-> "turnEnd"])

----------------------------------------------------------------------------
(* Start positions *)

\* Rows of piece cells a player can hold after 15 or 16 turns of play in
\* which every call is made in its phase (each turn moves one unlocked
\* piece 1..6 cells, stopping at 25; a row is reachable in t turns when
\* its cells sum to at least t, or at any t >= 15 when all are locked).
PlayRows == { <<25, 25, 25>>, <<20, 24, 25>> }

\* Rows reachable only when OnMoveComplete is called again on a landed
\* piece, which carries it past the checkpoints.
LateRows == { <<58, 60, 56>> }

RowPieces(row) ==
    [p \in 0..(PIECES_PER_PLAYER - 1) |->
        [id |-> p, cellIndex |-> row[p + 1], isAtCheckpoint |-> isCheckpoint(row[p + 1])]]

\* The engine between two turns, with the given rows on the board.
MidGame(numPlayers, rows, cur) ==
    [GameEngine(numPlayers) EXCEPT
        !.players = [i \in DOMAIN @ |-> [@[i] EXCEPT !.pieces = RowPieces(rows[i])]],
        !.currentPlayerIndex = cur]

IdleCalc == [startCell |-> 0, steps |-> 0, i |-> 0, current |-> 0, pc |-> "idle", result |-> null]

NoOp == [op |-> "new", arg |-> null, ret |-> null]

\* lastOp of a game taken up between two turns
Resumed == [op |-> "play", arg |-> null, ret |-> null]

NoMove == [type |-> "none"]

\* The event bus: handlers is the array of registered handler functions
\* (a function registered twice is in it twice); invoked, threw and emitted
\* record the handlers the last emit called, whether it ended by
\* propagating an exception, and how many emits were made.
Subscribers == 1..MaxSubscribers

IdleBus == [handlers |-> <<>>, invoked |-> <<>>, threw |-> FALSE, emitted |-> 0]

EventBus_on(b, handler) == [b EXCEPT !.handlers = Append(@, handler)]

EventBus_off(b, handler) ==
    [b EXCEPT !.handlers = SelectSeq(@, LAMBDA h : h # handler)]

\* handlers.forEach(h => h(event)): the handlers are called in array order;
\* a handler that throws ends the iteration and the exception leaves emit
RECURSIVE forEach(_, _, _, _)
forEach(hs, i, throwers, b) ==
    IF i > Len(hs) THEN b
    ELSE LET b1 == [b EXCEPT !.invoked = Append(@, hs[i])] IN
         IF hs[i] \in throwers
         THEN [b1 EXCEPT !.threw = TRUE]
         ELSE forEach(hs, i + 1, throwers, b1)

\* throwers: the handlers that throw when called with this event
EventBus_emit(b, throwers) ==
    forEach(b.handlers, 1, throwers,
            [b EXCEPT !.invoked = <<>>, !.threw = FALSE, !.emitted = @ + 1])

\* The UIManager's DOM, as far as it decides what can be clicked: diceArea,
\* diceBtn and selector are TRUE when the element does not carry cc-hidden;
\* cards holds the piece ids whose card has a click listener; tracked says
\* that turnTransitionTimer holds a timeout still to fire, lost counts the
\* turn timeouts still to fire whose handle was overwritten, hideTimers the
\* 800 ms timeouts still to fire.
buildDOM ==
    [diceArea |-> TRUE, diceBtn |-> TRUE, selector |-> FALSE, cards |-> {},
     tracked |-> FALSE, lost |-> 0, hideTimers |-> 0]

renderDiceArea(u, s) ==
    IF s.phase = "rolling"
    THEN [u EXCEPT !.diceArea = TRUE, !.diceBtn = TRUE]
    ELSE IF s.phase = "selecting" /\ s.diceValue # null
         THEN [u EXCEPT !.diceBtn = FALSE, !.hideTimers = @ + 1]
         ELSE [u EXCEPT !.diceArea = FALSE]

renderPieceSelector(u, s) ==
    IF s.phase # "selecting"
    THEN [u EXCEPT !.selector = FALSE]
    ELSE LET player == s.players[s.currentPlayerIndex] IN
         [u EXCEPT !.selector = TRUE,
                   !.cards = {player.pieces[k].id : k \in
                                 {j \in DOMAIN player.pieces : ~player.pieces[j].isAtCheckpoint}}]

handleTurnTransition(u, s) ==
    IF s.phase # "turnEnd"
    THEN [u EXCEPT !.tracked = FALSE]
    ELSE [u EXCEPT !.lost = IF u.tracked THEN @ + 1 ELSE @, !.tracked = TRUE]

UIManager_update(u, s) ==
    handleTurnTransition(renderPieceSelector(renderDiceArea(u, s), s), s)

\* The methods the object returned by createSpringSystem has
SpringSystemAPI == {"addPiece", "animateHop", "setPosition", "update"}

\* piecesManager.updatePositions(gameState): TRUE when it throws. It calls
\* springs.animateTo for the first piece of the first player.
updatePositions_throws(s) ==
    /\ \E i \in DOMAIN s.players : DOMAIN s.players[i].pieces # {}
    /\ "animateTo" \notin SpringSystemAPI

\* the step of animateMove's loop that skips a cell
nextCell_SkipsOne(current, totalCells) == (current + 2) % totalCells

\* const next = (current + 1) % totalCells
nextCell(current, totalCells) == (current + 1) % totalCells

\* the while loop of animateMove: the cells whose centres are pushed
RECURSIVE hopTargets(_, _, _, _)
hopTargets(current, toCell, totalCells, targets) ==
    IF current # toCell
    THEN hopTargets(nextCell(current, totalCells), toCell, totalCells,
                    Append(targets, nextCell(current, totalCells)))
    ELSE targets

\* piecesManager.animateMove builds one hop target per cell from fromCell
\* to toCell and awaits springs.animateHop on them; cells is the array
\* buildCellConfigs returns, of TOTAL_CELLS entries
animateMove_targets(fromCell, toCell) == hopTargets(fromCell, toCell, TOTAL_CELLS, <<>>)

\* The orchestrator: moves are the pieceMoving events whose handler is
\* suspended at `await animateMove` or has gone on from it; diags are the
\* calls of showError; thrown counts the errors raised inside the handler's
\* try block, rejections the handler promises that rejected; faulty names
\* the calls that throw when they are reached.
IdleOrch ==
    [ui |-> buildDOM, moves |-> <<>>, diags |-> <<>>, thrown |-> 0,
     rejections |-> 0, faulty |-> {}, isFollowing |-> FALSE, pressed |-> null]

\* CameraController.followPiece: the camera is tied to the piece and the
\* map controls are switched off
followPiece(o) == [o EXCEPT !.isFollowing = TRUE]

\* CameraController.easeToOverview: at the end of its timeline the camera
\* is released
easeToOverview(o) == [o EXCEPT !.isFollowing = FALSE]

\* board.pressCell(cellIndex)
pressCell(o, cellIndex) == [o EXCEPT !.pressed = cellIndex]

showError(o, event) == [o EXCEPT !.diags = Append(@, event.type)]

\* The try block of the handler up to its first suspension, for an event
\* emitted while the engine state is s: the orchestrator after it, and
\* whether an error left the block
tryBlock(o, event, s) ==
    LET raise == [o |-> [o EXCEPT !.thrown = @ + 1], err |-> TRUE] IN
    IF event.type = "pieceMoving"
    THEN IF "followPiece" \in o.faulty
         THEN raise
         ELSE IF "animateMove" \in o.faulty
         THEN [o |-> followPiece(raise.o), err |-> TRUE]
         ELSE [o |-> [followPiece(o) EXCEPT !.moves = Append(@,
                        [playerId |-> event.playerId, pieceId |-> event.pieceId,
                         from |-> event.from, to |-> event.to,
                         hopsLeft |-> Len(animateMove_targets(event.from, event.to)),
                         stage |-> "animating", completes |-> 0])],
               err |-> FALSE]
    ELSE IF event.type = "pieceLanded"
    THEN IF updatePositions_throws(s) THEN raise
         ELSE [o |-> easeToOverview(pressCell(o, event.cellIndex)), err |-> FALSE]
    ELSE IF event.type = "diceRolled" \/ event.type = "phaseChanged"
    THEN IF "uiUpdate" \in o.faulty
         THEN raise
         ELSE [o |-> [o EXCEPT !.ui = UIManager_update(@, s)], err |-> FALSE]
    ELSE [o |-> o, err |-> FALSE]

\* the handler without its catch
catch_Rethrow(r, event) == r

\* catch (err) { showError(...) }
catch(r, event) ==
    IF r.err THEN [o |-> showError(r.o, event), err |-> FALSE] ELSE r

\* The call of an async function: an error that leaves its body rejects
\* the promise it returns; nothing is thrown into the caller
asyncCall(r) ==
    [o |-> IF r.err THEN [r.o EXCEPT !.rejections = @ + 1] ELSE r.o, threw |-> FALSE]

eventHandler(o, event, s) == asyncCall(catch(tryBlock(o, event, s), event))

OrchestratorHandler == 1

\* The emits of the engine execution x from the i-th on, each delivered by
\* EventBus.emit to the handlers of bus b; an exception that leaves emit
\* leaves the engine operation too, at the state it had reached
RECURSIVE deliver(_, _, _, _)
deliver(o, b, x, i) ==
    IF i > Len(x.events)
    THEN [o |-> o, bus |-> b, x |-> x]
    ELSE LET h  == eventHandler(o, x.events[i], x.snaps[i])
             b1 == EventBus_emit(b, IF h.threw THEN {OrchestratorHandler} ELSE {})
         IN IF b1.threw
            THEN [o |-> h.o, bus |-> b1,
                  x |-> [x EXCEPT !.state = x.snaps[i],
                                  !.events = SubSeq(x.events, 1, i),
                                  !.snaps = SubSeq(x.snaps, 1, i)]]
            ELSE deliver(h.o, b1, x, i + 1)

----------------------------------------------------------------------------
(* The spring scheduler of createSpringSystem (SpringSystem.ts).            *)
(* Lengths and scales are counted in hundredths, so that the rest           *)
(* thresholds of 0.001 fall below one unit: two values are within the       *)
(* threshold exactly when they are equal.                                   *)

REST_SCALE_X == 100
REST_SCALE_Y == 70
REST_SCALE_Z == 100

Vec(x, y, z) == [x |-> x, y |-> y, z |-> z]

\* Places on the board a piece is registered at, hopped to or snapped to
Positions == {Vec(0, 0, 0), Vec(100, 20, 0)}

PosSprings == {"posX", "posY", "posZ"}
ScaleSprings == {"scaleX", "scaleY", "scaleZ"}
SpringNames == PosSprings \cup ScaleSprings

\* pieceKey of the two pieces addPiece is called for, and of one it is not
KeyA == "0-0"
KeyB == "1-0"
KeyNone == "0-1"

\* A wobble Spring as the scheduler uses it: currentValue, toValue, whether
\* the velocity is above the rest threshold, isAnimating. fromValue is not
\* kept: updateConfig makes it the current value.
makeSpring(from) == [cur |-> from, to |-> from, vel |-> 0, anim |-> FALSE]

\* spring.isAtRest: no velocity and no displacement
isAtRest(s) == s.vel = 0 /\ s.cur = s.to

\* spring.updateConfig({fromValue, toValue}): a spring that is animating
\* is first advanced to the present, without notice to listeners; the
\* velocity it has becomes the initial velocity of the new motion
Spring_updateConfig(s, fromValue, toValue) ==
    [s EXCEPT !.cur = fromValue, !.to = toValue,
              !.vel = IF s.anim /\ ~isAtRest(s) THEN 1 ELSE s.vel]

\* spring.start(): nothing to animate when the spring is where it is going
\* and has no velocity
Spring_start(s) ==
    IF s.cur # s.to \/ s.vel # 0 THEN [s EXCEPT !.anim = TRUE] ELSE s

\* spring.stop()
Spring_stop(s) == [s EXCEPT !.anim = FALSE]

\* The animation step in which the spring comes to rest: it takes its
\* rest value, notifies onUpdate and stops
Spring_settle(s) == [s EXCEPT !.cur = s.to, !.vel = 0, !.anim = FALSE]

setSpringTarget(spring, toValue) ==
    Spring_start(Spring_updateConfig(spring, spring.cur, toValue))

setIdleTarget(spring, target) ==
    IF spring.to # target
    THEN Spring_start(Spring_updateConfig(spring, spring.cur, target))
    ELSE spring

\* The PieceSpringSet addPiece stores
addPiece(position) ==
    [posX |-> makeSpring(position.x), posY |-> makeSpring(position.y),
     posZ |-> makeSpring(position.z), scaleX |-> makeSpring(REST_SCALE_X),
     scaleY |-> makeSpring(REST_SCALE_Y), scaleZ |-> makeSpring(REST_SCALE_Z),
     basePos |-> position, hopping |-> FALSE]

\* setSpringTarget on the springs named in tg, in a PieceSpringSet
retarget(set, tg) ==
    [n \in DOMAIN set |->
        IF n \in DOMAIN tg THEN setSpringTarget(set[n], tg[n]) ELSE set[n]]

\* The five phases of hopToCell
crouch(set) ==
    retarget(set, [scaleY |-> 45, scaleX |-> 130, scaleZ |-> 130,
                   posY |-> set.posY.cur - 10])

launch(set, target) ==
    retarget(set, [scaleY |-> 110, scaleX |-> 80, scaleZ |-> 80,
                   posY |-> target.y + 150, posX |-> target.x, posZ |-> target.z])

midAir(set) ==
    retarget(set, [scaleY |-> 70, scaleX |-> 100, scaleZ |-> 100])

land(set, target) ==
    retarget(set, [posY |-> target.y, scaleY |-> 40, scaleX |-> 140,
                   scaleZ |-> 140])

settle(set) ==
    retarget(set, [scaleY |-> REST_SCALE_Y, scaleX |-> REST_SCALE_X,
                   scaleZ |-> REST_SCALE_Z])

\* allAtRest(names): the springs whose springAtRest promise does not resolve
\* at once and is left to a listener
allAtRest(set, names) ==
    {n \in names : ~(isAtRest(set[n]) /\ ~set[n].anim)}

\* The last animateHop call that did not return at once: where it is
\* suspended or that its promise is resolved, its targets, the index of the
\* target it is hopping to, the springs it has a listener on; as history,
\* the phases it has run
NoHop ==
    [pc |-> "none", key |-> KeyNone, targets |-> <<>>, k |-> 0, waiting |-> {},
     trace |-> <<>>]

\* hopToCell up to its first await
hopToCell(y, k) ==
    [y EXCEPT !.pieces[y.hop.key] = crouch(@),
              !.hop.k = k, !.hop.pc = "crouchDelay",
              !.hop.trace = Append(@, "crouch")]

\* animateHop after the last hopToCell has returned
animateHop_finish(y) ==
    [y EXCEPT !.pieces[y.hop.key].basePos = y.hop.targets[Len(y.hop.targets)],
              !.pieces[y.hop.key].hopping = FALSE,
              !.hop.pc = "resolved"]

\* Promise.all has resolved and the continuation of `await allAtRest` is
\* queued: it runs before any timer, frame or call
continuationPending(y) ==
    y.hop.pc \in {"midAir", "settle"} /\ y.hop.waiting = {}

\* The continuation of `await allAtRest`: the landing after the mid-air
\* wait; after the settle wait the next hop of animateHop's loop, or its end
resume(y) ==
    IF y.hop.pc = "midAir"
    THEN [y EXCEPT !.pieces[y.hop.key] = land(@, y.hop.targets[y.hop.k]),
                   !.hop.pc = "landDelay", !.hop.trace = Append(@, "land")]
    ELSE IF y.hop.k < Len(y.hop.targets)
         THEN hopToCell(y, y.hop.k + 1)
         ELSE animateHop_finish(y)

\* animateHop(playerId, pieceId, targets), up to its first await or, for
\* missing input, to its return
animateHop_NoEmptyTest(y, key, targets) ==
    IF key \notin DOMAIN y.pieces
    THEN [y EXCEPT !.returned = TRUE]
    ELSE IF Len(targets) = 0
    THEN [y EXCEPT !.returned = FALSE, !.pieces[key].hopping = TRUE]
    ELSE hopToCell([y EXCEPT !.returned = FALSE,
                             !.pieces[key].hopping = TRUE,
                             !.hop = [NoHop EXCEPT !.key = key, !.targets = targets]], 1)

animateHop(y, key, targets) ==
    IF key \notin DOMAIN y.pieces \/ Len(targets) = 0
    THEN [y EXCEPT !.returned = TRUE]
    ELSE hopToCell([y EXCEPT !.returned = FALSE,
                             !.pieces[key].hopping = TRUE,
                             !.hop = [NoHop EXCEPT !.key = key, !.targets = targets]], 1)

\* The continuation of a delay(ms) promise of hopToCell
delayElapsed_NoMidAirWait(y) ==
    LET key == y.hop.key
        target == y.hop.targets[y.hop.k]
    IN  IF y.hop.pc = "crouchDelay"
        THEN [y EXCEPT !.pieces[key] = launch(@, target),
                       !.hop.pc = "launchDelay",
                       !.hop.trace = Append(@, "launch")]
        ELSE IF y.hop.pc = "launchDelay"
        THEN [y EXCEPT !.pieces[key] = midAir(@),
                       !.hop.pc = "midAir",
                       !.hop.waiting = {},
                       !.hop.trace = Append(@, "midAir")]
        ELSE LET set == settle(y.pieces[key])
             IN  [y EXCEPT !.pieces[key] = set,
                           !.hop.pc = "settle",
                           !.hop.waiting = allAtRest(set, SpringNames),
                           !.hop.trace = Append(@, "settle")]

delayElapsed_NoSettleWait(y) ==
    LET key == y.hop.key
        target == y.hop.targets[y.hop.k]
    IN  IF y.hop.pc = "crouchDelay"
        THEN [y EXCEPT !.pieces[key] = launch(@, target),
                       !.hop.pc = "launchDelay",
                       !.hop.trace = Append(@, "launch")]
        ELSE IF y.hop.pc = "launchDelay"
        THEN LET set == midAir(y.pieces[key])
             IN  [y EXCEPT !.pieces[key] = set,
                           !.hop.pc = "midAir",
                           !.hop.waiting = allAtRest(set, {"posX", "posZ"}),
                           !.hop.trace = Append(@, "midAir")]
        ELSE [y EXCEPT !.pieces[key] = settle(@),
                       !.hop.pc = "settle",
                       !.hop.waiting = {},
                       !.hop.trace = Append(@, "settle")]

delayElapsed(y) ==
    LET key == y.hop.key
        target == y.hop.targets[y.hop.k]
    IN  IF y.hop.pc = "crouchDelay"
        THEN [y EXCEPT !.pieces[key] = launch(@, target),
                       !.hop.pc = "launchDelay",
                       !.hop.trace = Append(@, "launch")]
        ELSE IF y.hop.pc = "launchDelay"
        THEN LET set == midAir(y.pieces[key])
             IN  [y EXCEPT !.pieces[key] = set,
                           !.hop.pc = "midAir",
                           !.hop.waiting = allAtRest(set, {"posX", "posZ"}),
                           !.hop.trace = Append(@, "midAir")]
        ELSE LET set == settle(y.pieces[key])
             IN  [y EXCEPT !.pieces[key] = set,
                           !.hop.pc = "settle",
                           !.hop.waiting = allAtRest(set, SpringNames),
                           !.hop.trace = Append(@, "settle")]

\* The listener springAtRest left on spring n of the piece `key` is
\* notified: it resolves if the spring is at rest
notify(y, key, n) ==
    IF key = y.hop.key /\ n \in y.hop.waiting /\ isAtRest(y.pieces[key][n])
    THEN [y EXCEPT !.hop.waiting = @ \ {n}]
    ELSE y

\* spring.stop() with its onStop notification, sent only when the spring
\* was animating
stopSpring(y, key, n) ==
    IF y.pieces[key][n].anim
    THEN notify([y EXCEPT !.pieces[key][n] = Spring_stop(@)], key, n)
    ELSE y

\* spring.updateConfig({fromValue: v, toValue: v}).stop()
resetSpring(y, key, n, v) ==
    stopSpring([y EXCEPT !.pieces[key][n] = Spring_updateConfig(@, v, v)], key, n)

RECURSIVE stopAll(_, _, _)
stopAll(y, key, names) ==
    IF names = <<>> THEN y
    ELSE stopAll(stopSpring(y, key, Head(names)), key, Tail(names))

RECURSIVE resetAll(_, _, _)
resetAll(y, key, resets) ==
    IF resets = <<>> THEN y
    ELSE resetAll(resetSpring(y, key, Head(resets)[1], Head(resets)[2]), key,
                  Tail(resets))

\* setPosition(playerId, pieceId, position)
setPosition_KeepBase(y, key, position) ==
    IF key \notin DOMAIN y.pieces THEN y
    ELSE resetAll(stopAll(y, key, <<"posX", "posY", "posZ">>), key,
                  << <<"posX", position.x>>, <<"posY", position.y>>,
                     <<"posZ", position.z>>, <<"scaleX", REST_SCALE_X>>,
                     <<"scaleY", REST_SCALE_Y>>, <<"scaleZ", REST_SCALE_Z>> >>)

setPosition(y, key, position) ==
    IF key \notin DOMAIN y.pieces THEN y
    ELSE resetAll(stopAll([y EXCEPT !.pieces[key].basePos = position],
                          key, <<"posX", "posY", "posZ">>), key,
                  << <<"posX", position.x>>, <<"posY", position.y>>,
                     <<"posZ", position.z>>, <<"scaleX", REST_SCALE_X>>,
                     <<"scaleY", REST_SCALE_Y>>, <<"scaleZ", REST_SCALE_Z>> >>)

\* The idle breathing of one PieceSpringSet; sin2 and sin3 stand for
\* Math.sin(t * 2 + p) and Math.sin(t * 3 + p), in units of their amplitude
idle_IgnoreHopping(set, sin2, sin3) ==
    [set EXCEPT !.posY = setIdleTarget(@, set.basePos.y + sin2 * 8),
                !.scaleY = setIdleTarget(@, REST_SCALE_Y + sin3 * 3),
                !.scaleX = setIdleTarget(@, REST_SCALE_X - sin3 * 2),
                !.scaleZ = setIdleTarget(@, REST_SCALE_Z - sin3 * 2)]

idle(set, sin2, sin3) ==
    IF set.hopping THEN set
    ELSE [set EXCEPT !.posY = setIdleTarget(@, set.basePos.y + sin2 * 8),
                     !.scaleY = setIdleTarget(@, REST_SCALE_Y + sin3 * 3),
                     !.scaleX = setIdleTarget(@, REST_SCALE_X - sin3 * 2),
                     !.scaleZ = setIdleTarget(@, REST_SCALE_Z - sin3 * 2)]

\* The PieceSpringState update() reports for a set
snapshot(set) ==
    [position |-> Vec(set.posX.cur, set.posY.cur, set.posZ.cur),
     scale |-> Vec(set.scaleX.cur, set.scaleY.cur, set.scaleZ.cur)]

\* update(dt): the sets after the idle nudges, and the states returned
update(y, sin2, sin3) ==
    LET ps == [key \in DOMAIN y.pieces |-> idle(y.pieces[key], sin2[key], sin3[key])]
    IN  [y EXCEPT !.pieces = ps,
                  !.states = [key \in DOMAIN ps |-> snapshot(ps[key])]]

\* The vectors of a returned entry are made by new THREE.Vector3(x, y, z)
\* from numbers: the vectors of the sets that are the same object as the
\* returned one
aliases_PositionIsBase(field) == IF field = "position" THEN {"basePos"} ELSE {}

aliases(field) == {}

\* A consumer of the returned map overwrites a vector of an entry in place
\* (entry.position.copy(v)): every object that vector is changes with it
consumerWrite(y, key, field, v) ==
    [y EXCEPT !.states[key][field] = v,
              !.pieces[key].basePos = IF "basePos" \in aliases(field) THEN v ELSE @]

\* One animation frame: every animating spring makes a step, and those in
\* `settling` come to rest in it; a spring still in flight keeps the value
\* it was last retargeted from. Listeners are notified.
Animating(y) ==
    {kn \in (DOMAIN y.pieces) \X SpringNames : y.pieces[kn[1]][kn[2]].anim}

RECURSIVE notifyAll(_, _)
notifyAll(y, kns) ==
    IF kns = {} THEN y
    ELSE LET kn == CHOOSE e \in kns : TRUE
         IN  notifyAll(notify(y, kn[1], kn[2]), kns \ {kn})

frame(y, settling) ==
    LET ps == [key \in DOMAIN y.pieces |->
                 [n \in DOMAIN y.pieces[key] |->
                     IF <<key, n>> \in settling
                     THEN Spring_settle(y.pieces[key][n])
                     ELSE y.pieces[key][n]]]
    IN  notifyAll([y EXCEPT !.pieces = ps], settling)

\* The scheduler after addPiece for two pieces; `returned` tells whether
\* the animateHop call just made returned at once, its promise resolved, and
\* `states` is what the update call just made returned
IdleSprings ==
    [pieces |-> (KeyA :> addPiece(Vec(0, 0, 0))) @@ (KeyB :> addPiece(Vec(100, 20, 0))),
     hop |-> NoHop,
     returned |-> FALSE,
     states |-> <<>>]

----------------------------------------------------------------------------
(* The scene modules: the cell layout (buildCellConfigs), the hop targets  *)
(* of a move (animateMove) and the packing of the pieces into the shader's *)
(* arrays (update of the pieces manager). Arcs are counted in weight units. *)

\* cell weights without the wider start cell and checkpoints
getCellWeight_Flat(index) == 1

getCellWeight(index) ==
    IF index = 0 THEN 4
    ELSE IF isCheckpoint(index) THEN 3
    ELSE 1

getCellZone(index) ==
    IF index = 0 THEN "start"
    ELSE IF index <= 25 THEN "green"
    ELSE IF index <= 40 THEN "yellow"
    ELSE IF index <= 52 THEN "blue"
    ELSE "purple"

\* the first loop of buildCellConfigs, from index i on
RECURSIVE sumWeights(_, _)
sumWeights(i, totalWeight) ==
    IF i < TOTAL_CELLS THEN sumWeights(i + 1, totalWeight + getCellWeight(i))
    ELSE totalWeight

\* One cell of the second loop: startFrac, endFrac and centerFrac are
\* start, end and center over totalWeight (center is kept doubled), and the
\* angles are the fractions of the full turn left after the end and the
\* start of the cell, the ring running clockwise
cellConfig(i, cumWeight, totalWeight) ==
    LET w == getCellWeight(i) IN
    [index |-> i,
     zone |-> getCellZone(i),
     isCheckpoint |-> isCheckpoint(i),
     start |-> cumWeight,
     end |-> cumWeight + w,
     center2 |-> 2 * cumWeight + w,
     angleStart |-> totalWeight - (cumWeight + w),
     angleEnd |-> totalWeight - cumWeight,
     totalWeight |-> totalWeight]

\* the second loop of buildCellConfigs, from index i on
RECURSIVE buildLoop(_, _, _, _)
buildLoop(i, cumWeight, totalWeight, cells) ==
    IF i < TOTAL_CELLS
    THEN buildLoop(i + 1, cumWeight + getCellWeight(i), totalWeight,
                   Append(cells, cellConfig(i, cumWeight, totalWeight)))
    ELSE cells

buildCellConfigs == buildLoop(0, 0, sumWeights(0, 0), <<>>)

MAX_PIECES == 8

\* the piece metadata createMetaballPieces registers for the game state s,
\* each with a piece added to the spring system
pieceMetas(s) ==
    [j \in 1..(Cardinality(DOMAIN s.players) * PIECES_PER_PLAYER) |->
        [playerId |-> (j - 1) \div PIECES_PER_PLAYER,
         pieceId |-> s.players[(j - 1) \div PIECES_PER_PLAYER]
                        .pieces[(j - 1) % PIECES_PER_PLAYER].id]]

\* One pass of the packing loop of update over the k-th entry: break when
\* the arrays are full, continue when the spring system has no state for
\* the piece, else fill slot i
packBody(y, registered) ==
    IF y.i >= MAX_PIECES THEN [y EXCEPT !.pc = "count"]
    ELSE IF y.metas[y.k] \notin registered THEN [y EXCEPT !.k = @ + 1]
    ELSE [y EXCEPT !.slots = Append(@, y.metas[y.k]), !.i = @ + 1, !.k = @ + 1]

IdleScene == [op |-> "none"]

----------------------------------------------------------------------------
\* A game is followed either from its construction or from a position
\* between two turns.
Init ==
    /\ \/ \E n \in 1..MaxConstructorArg :
             /\ numPlayersArg = n
             /\ state = GameEngine(n)
             /\ respecting = TRUE
             /\ lastOp = NoOp
       \/ \E n \in 1..MaxNumPlayers :
             \E rows \in [0..(n - 1) -> PlayRows \cup LateRows], cur \in 0..(n - 1) :
                /\ numPlayersArg = n
                /\ state = MidGame(n, rows, cur)
                /\ respecting = (\A i \in DOMAIN rows : rows[i] \in PlayRows)
                /\ lastOp = Resumed
    /\ events = <<>>
    /\ phases = <<>>
    /\ opCount = 0
    /\ inFlight = 0
    /\ calc = IdleCalc
    /\ pending = NoMove
    /\ springs = IdleSprings
    /\ springOp = [name |-> "createSpringSystem", n |-> 0]
    /\ scene = IdleScene
    /\ bus = IdleBus
    /\ orch = IdleOrch

----------------------------------------------------------------------------
(* Actions: one per public operation *)

Begin == [state |-> state, events |-> <<>>, snaps |-> <<>>, phases |-> <<>>, ret |-> null]

\* pieceMoving events not yet followed by a pieceLanded, after `evs`
RECURSIVE track(_, _)
track(n, evs) ==
    IF evs = <<>> THEN n
    ELSE LET e == Head(evs) IN
         track(IF e.type = "pieceMoving" THEN Min(n + 1, 2)
               ELSE IF e.type = "pieceLanded" THEN 0
               ELSE n, Tail(evs))

\* the pieceMoving event still waiting for its pieceLanded, after `evs`
RECURSIVE trackPending(_, _)
trackPending(p, evs) ==
    IF evs = <<>> THEN p
    ELSE LET e == Head(evs) IN
         trackPending(IF e.type = "pieceMoving" THEN e
                      ELSE IF e.type = "pieceLanded" THEN NoMove
                      ELSE p, Tail(evs))

EngineCall(op, arg, x, inPhase) ==
    /\ state' = x.state
    /\ events' = x.events
    /\ phases' = x.phases
    /\ lastOp' = [op |-> op, arg |-> arg, ret |-> x.ret]
    /\ opCount' = opCount + 1
    /\ inFlight' = track(inFlight, x.events)
    /\ respecting' = (respecting /\ inPhase)
    /\ pending' = trackPending(pending, x.events)

Call(op, arg, x, inPhase) ==
    /\ opCount < MaxOps
    /\ EngineCall(op, arg, x, inPhase)
    /\ UNCHANGED <<springs, springOp, scene, calc, numPlayersArg, bus, orch>>

\* Math.floor(Math.random() * 6) without the + 1
randomDie_NoPlusOne == 0..(DICE_SIDES - 1)

\* Math.floor(Math.random() * 6) + 1
randomDie == 1..DICE_SIDES

RollDice ==
    \E value \in randomDie :
        Call("rollDice", null, rollDice(Begin, value), state.phase = "rolling")

SelectPiece ==
    \E pieceId \in 0..MaxPieceId :
        Call("selectPiece", pieceId, selectPiece(Begin, pieceId), state.phase = "selecting")

OnMoveComplete ==
    Call("onMoveComplete", null, onMoveComplete(Begin), state.phase = "moving")

NextTurn ==
    Call("nextTurn", null, nextTurn(Begin), state.phase = "turnEnd")

Next == RollDice \/ SelectPiece \/ OnMoveComplete \/ NextTurn

Spec == Init /\ [][Next]_vars

----------------------------------------------------------------------------
(* The engine driven as its callers drive it: the roll button is offered   *)
(* in phase rolling, the piece cards in phase selecting, the orchestrator  *)
(* reports the end of the animation of the move in phase moving, and the   *)
(* transition timer calls nextTurn in phase turnEnd.                       *)

InitInPhase == Init /\ respecting

InPhaseRollDice == state.phase = "rolling" /\ RollDice

InPhaseSelectPiece == state.phase = "selecting" /\ SelectPiece

InPhaseOnMoveComplete == state.phase = "moving" /\ OnMoveComplete

InPhaseNextTurn == state.phase = "turnEnd" /\ NextTurn

NextInPhase ==
    InPhaseRollDice \/ InPhaseSelectPiece \/ InPhaseOnMoveComplete \/ InPhaseNextTurn

SpecInPhase == InitInPhase /\ [][NextInPhase]_vars

----------------------------------------------------------------------------
(* A game played to its end: the calls are made in their phase, without a  *)
(* limit on their number, from a position late in the game. Each player    *)
(* rolls when asked to, picks a piece that can move when there is one, and *)
(* every move is completed and followed by nextTurn.                       *)

\* Rows a player can hold late in a game played in phase
GameRows == { <<25, 25, 25>>, <<23, 24, 25>> }

InitGame ==
    /\ \E n \in 1..MaxNumPlayers :
          \E rows \in [0..(n - 1) -> GameRows], cur \in 0..(n - 1) :
             /\ numPlayersArg = n
             /\ state = MidGame(n, rows, cur)
    /\ respecting = TRUE
    /\ lastOp = Resumed
    /\ events = <<>>
    /\ phases = <<>>
    /\ opCount = 0
    /\ inFlight = 0
    /\ calc = IdleCalc
    /\ pending = NoMove
    /\ springs = IdleSprings
    /\ springOp = [name |-> "createSpringSystem", n |-> 0]
    /\ scene = IdleScene
    /\ bus = IdleBus
    /\ orch = IdleOrch

GameCall(op, arg, x) ==
    /\ state' = x.state
    /\ events' = x.events
    /\ phases' = x.phases
    /\ lastOp' = [op |-> op, arg |-> arg, ret |-> x.ret]
    /\ inFlight' = track(inFlight, x.events)
    /\ pending' = trackPending(pending, x.events)
    /\ UNCHANGED <<opCount, respecting, springs, springOp, scene, calc, numPlayersArg,
                   bus, orch>>

\* selectPiece(pieceId) would start a move
selectable(pieceId) == selectPiece(Begin, pieceId).state.phase = "moving"

PlayerRolls ==
    /\ state.phase = "rolling"
    /\ \E value \in randomDie :
          \E run \in {rollDice(Begin, value)} : GameCall("rollDice", null, run)

PlayerSelects ==
    /\ state.phase = "selecting"
    /\ \E pieceId \in 0..MaxPieceId :
          /\ selectable(pieceId)
          /\ \E run \in {selectPiece(Begin, pieceId)} :
                GameCall("selectPiece", pieceId, run)

\* a click on the card of a piece that cannot move
PlayerSelectsInVain ==
    /\ state.phase = "selecting"
    /\ \E pieceId \in 0..MaxPieceId :
          /\ ~selectable(pieceId)
          /\ \E run \in {selectPiece(Begin, pieceId)} :
                GameCall("selectPiece", pieceId, run)

MoveIsCompleted ==
    /\ state.phase = "moving"
    /\ \E run \in {onMoveComplete(Begin)} : GameCall("onMoveComplete", null, run)

TurnIsClosed ==
    /\ state.phase = "turnEnd"
    /\ \E run \in {nextTurn(Begin)} : GameCall("nextTurn", null, run)

NextGame ==
    PlayerRolls \/ PlayerSelects \/ PlayerSelectsInVain \/ MoveIsCompleted \/ TurnIsClosed

FairGame ==
    /\ WF_vars(PlayerRolls)
    /\ WF_vars(PlayerSelects)
    /\ WF_vars(MoveIsCompleted)
    /\ WF_vars(TurnIsClosed)

SpecGame == InitGame /\ [][NextGame]_vars /\ FairGame

----------------------------------------------------------------------------
(* calculateTarget run one loop iteration per step *)

InitTarget ==
    /\ numPlayersArg = 2
    /\ pending = NoMove
    /\ springs = IdleSprings
    /\ springOp = [name |-> "createSpringSystem", n |-> 0]
    /\ scene = IdleScene
    /\ bus = IdleBus
    /\ orch = IdleOrch
    /\ state = GameEngine(2)
    /\ respecting = TRUE
    /\ events = <<>>
    /\ phases = <<>>
    /\ lastOp = NoOp
    /\ opCount = 0
    /\ inFlight = 0
    /\ \E startCell \in 0..(TOTAL_CELLS - 1), steps \in 0..DICE_SIDES :
          calc = [startCell |-> startCell, steps |-> steps, i |-> 0,
                  current |-> startCell, pc |-> "loop", result |-> null]

TargetIterate ==
    /\ calc.pc = "loop"
    /\ calc.i < calc.steps
    /\ LET b == loopBody(calc.startCell, calc.current) IN
       calc' = IF b.ret
               THEN [calc EXCEPT !.pc = "done", !.result = b.value]
               ELSE [calc EXCEPT !.current = b.value, !.i = @ + 1]
    /\ UNCHANGED <<springs, springOp, scene, state, events, phases, lastOp, opCount, inFlight, respecting,
                   numPlayersArg, pending, bus, orch>>

TargetReturn ==
    /\ calc.pc = "loop"
    /\ calc.i >= calc.steps
    /\ calc' = [calc EXCEPT !.pc = "done", !.result = calc.current]
    /\ UNCHANGED <<springs, springOp, scene, state, events, phases, lastOp, opCount, inFlight, respecting,
                   numPlayersArg, pending, bus, orch>>

NextTarget == TargetIterate \/ TargetReturn

SpecTarget == InitTarget /\ [][NextTarget]_vars

----------------------------------------------------------------------------
(* The event bus on its own, with handlers that may throw *)

InitBus ==
    /\ bus = IdleBus
    /\ orch = IdleOrch
    /\ numPlayersArg = 2
    /\ state = GameEngine(2)
    /\ respecting = TRUE
    /\ lastOp = NoOp
    /\ events = <<>>
    /\ phases = <<>>
    /\ opCount = 0
    /\ inFlight = 0
    /\ calc = IdleCalc
    /\ pending = NoMove
    /\ springs = IdleSprings
    /\ springOp = [name |-> "createSpringSystem", n |-> 0]
    /\ scene = IdleScene

BusStep(b) ==
    /\ bus' = b
    /\ UNCHANGED <<springs, springOp, scene, state, events, phases, lastOp, opCount, inFlight, respecting,
                   calc, numPlayersArg, pending, orch>>

On ==
    /\ Len(bus.handlers) < MaxRegistrations
    /\ \E handler \in Subscribers : BusStep(EventBus_on(bus, handler))

Off == \E handler \in Subscribers : BusStep(EventBus_off(bus, handler))

Emit ==
    /\ bus.emitted < MaxEmits
    /\ \E throwers \in SUBSET Subscribers : BusStep(EventBus_emit(bus, throwers))

NextBus == On \/ Off \/ Emit

SpecBus == InitBus /\ [][NextBus]_vars

----------------------------------------------------------------------------
(* The orchestrated system: the engine is called by the UIManager's click *)
(* listeners and timeouts and by the handler init() registers on the bus   *)

\* The calls of the handler's try block that may be made to throw
Faultable == {"followPiece", "animateMove", "uiUpdate"}

InitOrchFaults ==
    /\ \/ state = GameEngine(2) /\ lastOp = NoOp
       \/ \E rows \in [0..1 -> PlayRows], cur \in 0..1 :
             state = MidGame(2, rows, cur) /\ lastOp = Resumed
    /\ numPlayersArg = 2
    /\ respecting = TRUE
    /\ events = <<>>
    /\ phases = <<>>
    /\ opCount = 0
    /\ inFlight = 0
    /\ calc = IdleCalc
    /\ pending = NoMove
    /\ springs = IdleSprings
    /\ springOp = [name |-> "createSpringSystem", n |-> 0]
    /\ scene = IdleScene
    /\ bus = EventBus_on(IdleBus, OrchestratorHandler)
    /\ \E faulty \in SUBSET Faultable :
          orch = [IdleOrch EXCEPT !.ui = UIManager_update(buildDOM, state),
                                  !.faulty = faulty]

InitOrch == InitOrchFaults /\ orch.faulty = {}

\* A promise the handler awaits has resolved: its continuation runs before
\* any timer, frame or click
MicrotaskPending ==
    \E i \in DOMAIN orch.moves :
        orch.moves[i].stage = "animating" /\ orch.moves[i].hopsLeft = 0

\* An engine operation called while the orchestrator is o
OrchCall(op, arg, x, o, inPhase) ==
    \E run \in {x} :
       \E d \in {deliver(o, bus, run, 1)} :
          /\ EngineCall(op, arg, d.x, inPhase)
          /\ bus' = d.bus
          /\ orch' = d.o
          /\ UNCHANGED <<springs, springOp, scene, calc, numPlayersArg>>

OrchStep(o) ==
    /\ orch' = o
    /\ UNCHANGED <<springs, springOp, scene, state, events, phases, lastOp, opCount, inFlight, respecting,
                   calc, numPlayersArg, pending, bus>>

ClickRollDice ==
    /\ ~MicrotaskPending
    /\ opCount < MaxOps
    /\ orch.ui.diceArea /\ orch.ui.diceBtn
    /\ \E value \in randomDie :
          OrchCall("rollDice", null, rollDice(Begin, value), orch, state.phase = "rolling")

ClickPieceCard ==
    /\ ~MicrotaskPending
    /\ opCount < MaxOps
    /\ orch.ui.selector
    /\ \E pieceId \in orch.ui.cards :
          OrchCall("selectPiece", pieceId, selectPiece(Begin, pieceId), orch,
                   state.phase = "selecting")

\* one hop of an awaited animation comes to rest
HopLands ==
    /\ ~MicrotaskPending
    /\ \E i \in DOMAIN orch.moves :
          /\ orch.moves[i].stage = "animating"
          /\ orch.moves[i].hopsLeft > 0
          /\ OrchStep([orch EXCEPT !.moves[i].hopsLeft = @ - 1])

\* a handler that does not wait for the animation
MoveCompletes_NoAwait ==
    \E i \in DOMAIN orch.moves :
        /\ orch.moves[i].stage = "animating"
        /\ \E run \in {onMoveComplete(Begin)} :
              \E d \in {deliver([orch EXCEPT !.moves[i].stage = "done",
                                             !.moves[i].completes = @ + 1],
                                bus, run, 1)} :
                 /\ EngineCall("onMoveComplete", null, d.x, state.phase = "moving")
                 /\ bus' = d.bus
                 /\ orch' = IF d.bus.threw
                            THEN showError([d.o EXCEPT !.thrown = @ + 1],
                                           [type |-> "pieceMoving"])
                            ELSE d.o
                 /\ UNCHANGED <<springs, springOp, scene, calc, numPlayersArg>>

\* the handler goes on from `await animateMove`: engine.onMoveComplete()
MoveCompletes ==
    \E i \in DOMAIN orch.moves :
        /\ orch.moves[i].stage = "animating"
        /\ orch.moves[i].hopsLeft = 0
        /\ \E run \in {onMoveComplete(Begin)} :
              \E d \in {deliver([orch EXCEPT !.moves[i].stage = "done",
                                             !.moves[i].completes = @ + 1],
                                bus, run, 1)} :
                 /\ EngineCall("onMoveComplete", null, d.x, state.phase = "moving")
                 /\ bus' = d.bus
                 /\ orch' = IF d.bus.threw
                            THEN showError([d.o EXCEPT !.thrown = @ + 1],
                                           [type |-> "pieceMoving"])
                            ELSE d.o
                 /\ UNCHANGED <<springs, springOp, scene, calc, numPlayersArg>>

\* a turn-transition timeout fires: engine.nextTurn(), then the handle is
\* set to null
\* (the 800 ms timeouts pending were all set before it, and fire before it)
TurnTimerFires ==
    /\ ~MicrotaskPending
    /\ orch.ui.hideTimers = 0
    /\ \E which \in {"tracked", "lost"} :
          /\ which = "tracked" => orch.ui.tracked
          /\ which = "lost" => orch.ui.lost > 0
          /\ \E run \in {nextTurn(Begin)} :
                \E d \in {deliver(IF which = "tracked"
                                  THEN [orch EXCEPT !.ui.tracked = FALSE]
                                  ELSE [orch EXCEPT !.ui.lost = @ - 1],
                                  bus, run, 1)} :
                   /\ EngineCall("nextTurn", null, d.x, state.phase = "turnEnd")
                   /\ bus' = d.bus
                   /\ orch' = IF d.bus.threw THEN d.o
                              ELSE [d.o EXCEPT
                                      !.ui.lost = IF d.o.ui.tracked THEN @ + 1 ELSE @,
                                      !.ui.tracked = FALSE]
                   /\ UNCHANGED <<springs, springOp, scene, calc, numPlayersArg>>

\* an 800 ms timeout of renderDiceArea fires
HideTimerFires ==
    /\ ~MicrotaskPending
    /\ orch.ui.hideTimers > 0
    /\ OrchStep([orch EXCEPT !.ui.hideTimers = @ - 1, !.ui.diceArea = FALSE])

NextOrch ==
    ClickRollDice \/ ClickPieceCard \/ HopLands \/ MoveCompletes
        \/ TurnTimerFires \/ HideTimerFires

\* Animation frames keep running: a hop under way comes to rest
FairOrch == WF_vars(HopLands)

SpecOrch == InitOrch /\ [][NextOrch]_vars /\ FairOrch

SpecOrchFaults == InitOrchFaults /\ [][NextOrch]_vars /\ FairOrch

----------------------------------------------------------------------------
(* The spring scheduler called in any order, with its timers and frames *)

MaxSpringOps == 3
MaxTargets == 2

\* Two instants of the animation clock, with the sines each piece's phase
\* offset gives it then, in units of their amplitude
Instants ==
    {[sin2 |-> (KeyA :> 1) @@ (KeyB :> -1), sin3 |-> (KeyA :> -1) @@ (KeyB :> 1)],
     [sin2 |-> (KeyA :> -1) @@ (KeyB :> 1), sin3 |-> (KeyA :> 1) @@ (KeyB :> -1)]}

\* The cells along the track: animateMove hops through consecutive cells
Cell(i) == Vec(100 * (i % 2), 20 * (i % 2), 100 * ((i \div 2) % 2))

TargetLists == {[i \in 1..n |-> Cell(i)] : n \in 0..MaxTargets}

InitSpring ==
    /\ springs = IdleSprings
    /\ springOp = [name |-> "createSpringSystem", n |-> 0]
    /\ scene = IdleScene
    /\ numPlayersArg = 2
    /\ state = GameEngine(2)
    /\ respecting = TRUE
    /\ lastOp = NoOp
    /\ events = <<>>
    /\ phases = <<>>
    /\ opCount = 0
    /\ inFlight = 0
    /\ calc = IdleCalc
    /\ pending = NoMove
    /\ bus = IdleBus
    /\ orch = IdleOrch

\* The states update returns are used within the frame they are made in
SpringStep(y, op) ==
    /\ springs' = [y EXCEPT !.states = IF op.name \in {"update", "consumerWrite"}
                                       THEN @ ELSE <<>>,
                            !.returned = IF op.name = "animateHop" THEN @ ELSE FALSE]
    /\ springOp' = op
    /\ UNCHANGED <<scene, state, events, phases, lastOp, opCount, inFlight, respecting,
                   calc, numPlayersArg, pending, bus, orch>>

SpringCall(y, op) ==
    /\ springOp.n < MaxSpringOps
    /\ ~continuationPending(springs)
    /\ SpringStep(y, op @@ [n |-> springOp.n + 1])

\* At most one animateHop is under way; calls that return at once may be
\* made at any time
AnimateHop ==
    \E key \in {KeyA, KeyNone}, targets \in TargetLists :
       /\ springs.hop.pc \in {"none", "resolved"} \/ key = KeyNone \/ targets = <<>>
       /\ SpringCall(animateHop(springs, key, targets),
                     [name |-> "animateHop", key |-> key, targets |-> targets])

\* The piece that hops is also the one that is snapped
SetPosition ==
    \E key \in {KeyA, KeyNone}, position \in Positions :
       SpringCall(setPosition(springs, key, position),
                  [name |-> "setPosition", key |-> key, position |-> position])

Update ==
    \E t \in Instants :
       SpringCall(update(springs, t.sin2, t.sin3), [name |-> "update"])

\* A setTimeout of delay(ms) fires
DelayElapses ==
    /\ springs.hop.pc \in {"crouchDelay", "launchDelay", "landDelay"}
    /\ ~continuationPending(springs)
    /\ SpringStep(delayElapsed(springs), [name |-> "delay", n |-> springOp.n])

\* Springs with the same preset that move along the same axes come to rest
\* in the same frame
SpringGroups == {{"posX", "posZ"}, {"posY"}, ScaleSprings}

\* requestAnimationFrame runs the step of every animating spring
Frame ==
    \E g \in SpringGroups :
       \E settling \in {{kn \in Animating(springs) : kn[2] \in g}} :
          /\ settling # {}
          /\ ~continuationPending(springs)
          /\ SpringStep(frame(springs, settling),
                        [name |-> "frame", n |-> springOp.n])

\* The microtask queued by a resolved allAtRest promise runs
Continuation ==
    /\ continuationPending(springs)
    /\ SpringStep(resume(springs), [name |-> "continuation", n |-> springOp.n])

\* The caller of update writes into both vectors of the entry of the piece
\* that hops, in the map it has just got
ConsumerWrites ==
    /\ springOp.name = "update"
    /\ \E key \in {KeyA} \cap DOMAIN springs.states :
          \E v \in {Vec(0 - 100, 0 - 100, 0 - 100)} :
             SpringStep(consumerWrite(consumerWrite(springs, key, "position", v),
                                      key, "scale", v),
                        [name |-> "consumerWrite", n |-> springOp.n])

NextSpring ==
    \/ AnimateHop \/ SetPosition \/ Update \/ DelayElapses \/ Frame \/ Continuation
    \/ ConsumerWrites

SpecSpring == InitSpring /\ [][NextSpring]_vars

----------------------------------------------------------------------------
(* The loops of the scene modules run one iteration per step *)

\* One of: animateMove(playerId, pieceId, fromCell, toCell) for a
\* pieceMoving event, either the one selectPiece emits for a piece on
\* fromCell and a dice value, or any with fromCell < toCell; update() of the
\* pieces manager made for a new game; buildCellConfigs()
InitScene ==
    /\ \/ /\ \E fromCell \in 0..(TOTAL_CELLS - 2) :
                \E dice \in randomDie \cup {null} :
                   \E toCell \in IF dice = null
                                 THEN (fromCell + 1)..(TOTAL_CELLS - 1)
                                 ELSE {calculateTarget(fromCell, dice)} \ {fromCell} :
                      scene = [op |-> "animateMove", fromCell |-> fromCell,
                               toCell |-> toCell, dice |-> dice,
                               totalCells |-> Len(buildCellConfigs),
                               current |-> fromCell, targets |-> <<>>,
                               wrapped |-> FALSE, pc |-> "loop"]
          /\ numPlayersArg = 2
       \/ \E n \in 1..MaxConstructorArg :
             /\ numPlayersArg = n
             /\ scene = [op |-> "update", metas |-> pieceMetas(GameEngine(n)),
                         k |-> 1, i |-> 0, slots |-> <<>>, uPieceCount |-> 0,
                         pc |-> "loop"]
       \/ /\ scene = [op |-> "buildCellConfigs", i |-> 0, totalWeight |-> 0,
                      cumWeight |-> 0, cells |-> <<>>, pc |-> "sum"]
          /\ numPlayersArg = 2
    /\ state = GameEngine(numPlayersArg)
    /\ respecting = TRUE
    /\ lastOp = NoOp
    /\ events = <<>>
    /\ phases = <<>>
    /\ opCount = 0
    /\ inFlight = 0
    /\ calc = IdleCalc
    /\ pending = NoMove
    /\ springs = IdleSprings
    /\ springOp = [name |-> "createSpringSystem", n |-> 0]
    /\ bus = IdleBus
    /\ orch = IdleOrch

SceneStep(y) ==
    /\ scene' = y
    /\ UNCHANGED <<state, events, phases, lastOp, opCount, inFlight, respecting,
                   calc, numPlayersArg, pending, bus, orch, springs, springOp>>

\* while (current !== toCell) { ... }
MoveIterate ==
    /\ scene.op = "animateMove" /\ scene.pc = "loop"
    /\ scene.current # scene.toCell
    /\ \E next \in {nextCell(scene.current, scene.totalCells)} :
          SceneStep([scene EXCEPT !.targets = Append(@, next),
                                  !.current = next,
                                  !.wrapped = @ \/ next < scene.current])

\* await springs.animateHop(playerId, pieceId, targets)
MoveAwaitsHop ==
    /\ scene.op = "animateMove" /\ scene.pc = "loop"
    /\ scene.current = scene.toCell
    /\ SceneStep([scene EXCEPT !.pc = "animateHop"])

\* for (const meta of pieceMetas) { ... }
PackIterate ==
    /\ scene.op = "update" /\ scene.pc = "loop"
    /\ scene.k <= Len(scene.metas)
    /\ SceneStep(packBody(scene, {scene.metas[j] : j \in DOMAIN scene.metas}))

\* the loop has run over every entry
PackEnds ==
    /\ scene.op = "update" /\ scene.pc = "loop"
    /\ scene.k > Len(scene.metas)
    /\ SceneStep([scene EXCEPT !.pc = "count"])

\* uniforms.uPieceCount.value = i
PackCount ==
    /\ scene.op = "update" /\ scene.pc = "count"
    /\ SceneStep([scene EXCEPT !.uPieceCount = scene.i, !.pc = "done"])

\* for (let i = 0; i < TOTAL_CELLS; i++) totalWeight += getCellWeight(i)
LayoutSum ==
    /\ scene.op = "buildCellConfigs" /\ scene.pc = "sum"
    /\ IF scene.i < TOTAL_CELLS
       THEN SceneStep([scene EXCEPT !.totalWeight = @ + getCellWeight(scene.i),
                                    !.i = @ + 1])
       ELSE SceneStep([scene EXCEPT !.i = 0, !.pc = "build"])

\* the second loop: one cell is pushed
LayoutBuild ==
    /\ scene.op = "buildCellConfigs" /\ scene.pc = "build"
    /\ scene.i < TOTAL_CELLS
    /\ SceneStep([scene EXCEPT
                    !.cells = Append(@, cellConfig(scene.i, scene.cumWeight,
                                                   scene.totalWeight)),
                    !.cumWeight = @ + getCellWeight(scene.i),
                    !.i = @ + 1])

\* return cells
LayoutReturn ==
    /\ scene.op = "buildCellConfigs" /\ scene.pc = "build"
    /\ scene.i >= TOTAL_CELLS
    /\ SceneStep([scene EXCEPT !.pc = "returned"])

NextScene ==
    \/ MoveIterate \/ MoveAwaitsHop
    \/ PackIterate \/ PackEnds \/ PackCount
    \/ LayoutSum \/ LayoutBuild \/ LayoutReturn

SpecScene == InitScene /\ [][NextScene]_vars

----------------------------------------------------------------------------
(* Properties *)

\* A step that is a call of the public operation `op`
IsCall(op) == opCount' = opCount + 1 /\ lastOp'.op = op

Locked(s, i) == \A k \in DOMAIN s.players[i].pieces : s.players[i].pieces[k].isAtCheckpoint

NumPlayers(s) == Cardinality(DOMAIN s.players)

SetMin(S) == CHOOSE c \in S : \A d \in S : c <= d

\* The target as the rules state it: the first checkpoint strictly after
\* start within reach, else start + steps clamped to cell 60.
ReferenceTarget(start, steps) ==
    LET hit == {c \in {25, 52, 56} : start < c /\ c <= start + steps} IN
    IF hit # {} THEN SetMin(hit) ELSE Min(start + steps, 60)

\* C1: for every start in 0..60 and steps in 0..6 calculateTarget(start,
\* steps) is the smallest checkpoint c with start < c <= start + steps when
\* there is one, else min(start + steps, 60); the loop run step by step and
\* the function the engine calls both give that value.
C1_TargetIsReference ==
    calc.pc # "idle" =>
        /\ calculateTarget(calc.startCell, calc.steps)
              = ReferenceTarget(calc.startCell, calc.steps)
        /\ calc.pc = "done" => calc.result = ReferenceTarget(calc.startCell, calc.steps)

\* calculateTarget(20, 6) has returned 25
C1_Witness ==
    calc.pc = "done" /\ calc.startCell = 20 /\ calc.steps = 6 /\ calc.result = 25

\* C2: the result of calculateTarget never exceeds 60, and no cell the loop
\* advances to (no value of `current`) is at or beyond the track length 61.
C2_NeverBeyondTrack ==
    /\ calc.current < 61
    /\ calc.pc = "done" => calc.result <= 60

\* calculateTarget(58, 6) has advanced to 59 and 60 and returned 60
C2_Witness ==
    calc.pc = "done" /\ calc.startCell = 58 /\ calc.steps = 6
        /\ calc.current = 60 /\ calc.result = 60

\* The cases in which SelectPiece(pieceId) must ignore the call
SelectIgnored(s, pieceId) ==
    LET player == s.players[s.currentPlayerIndex]
        ids    == {player.pieces[k].id : k \in DOMAIN player.pieces}
    IN \/ pieceId \notin ids
       \/ \E k \in DOMAIN player.pieces :
             /\ player.pieces[k].id = pieceId
             /\ \/ player.pieces[k].isAtCheckpoint
                \/ s.diceValue = null
                \/ s.phase # "selecting"
                \/ calculateTarget(player.pieces[k].cellIndex, s.diceValue)
                      = player.pieces[k].cellIndex

\* C3: SelectPiece(pieceId) changes no field of the game state and emits no
\* event when the id is not one of the current player's pieces, the piece is
\* locked, no dice value is present, the phase is not selecting, or the
\* target equals the piece's cell.
C3_SelectNoOp ==
    [][(IsCall("selectPiece") /\ SelectIgnored(state, lastOp'.arg))
          => (state' = state /\ events' = <<>>)]_vars

\* SelectPiece was called, in phase selecting with a dice value, on a locked
\* piece of the current player and did nothing
C3_Witness ==
    /\ lastOp.op = "selectPiece"
    /\ state.phase = "selecting"
    /\ state.diceValue # null
    /\ \E k \in DOMAIN state.players[state.currentPlayerIndex].pieces :
          /\ state.players[state.currentPlayerIndex].pieces[k].id = lastOp.arg
          /\ state.players[state.currentPlayerIndex].pieces[k].isAtCheckpoint
    /\ events = <<>>

NoLanded(evs) == \A i \in 1..Len(evs) : evs[i].type # "pieceLanded"

\* C4: a second OnMoveComplete directly after a first one leaves every
\* piece's cell index and lock flag as they were and emits no pieceLanded.
C4_NoDoubleAdvance ==
    [][(lastOp.op = "onMoveComplete" /\ IsCall("onMoveComplete"))
          => (state'.players = state.players /\ NoLanded(events'))]_vars

\* C5: between operations the selection is present only in phase moving.
C5_SelectionOnlyWhileMoving ==
    state.selectedPieceId # null => state.phase = "moving"

\* C6: whenever the phase is rolling the dice value is absent.
C6_NoDiceWhileRolling ==
    state.phase = "rolling" => state.diceValue = null

\* RollDice stored a value and its auto-skip returned to rolling
C6_Witness ==
    /\ lastOp.op = "rollDice"
    /\ lastOp.ret \in 1..6
    /\ state.phase = "rolling"

Cycle == { <<"rolling", "selecting">>, <<"selecting", "moving">>,
           <<"moving", "turnEnd">>, <<"turnEnd", "rolling">> }

\* Every change of phase made by this step is an edge of the cycle (the
\* player advancing on turnEnd -> rolling) or the auto-skip of RollDice.
PhaseEdgesOK ==
    LET seq == <<state.phase>> \o phases' IN
    \A i \in 1..(Len(seq) - 1) :
        seq[i] # seq[i + 1] =>
            /\ \/ <<seq[i], seq[i + 1]>> \in Cycle
               \/ /\ <<seq[i], seq[i + 1]>> = <<"selecting", "rolling">>
                  /\ lastOp'.op = "rollDice"
            /\ seq[i + 1] = "rolling" =>
                  state'.currentPlayerIndex
                      = (state.currentPlayerIndex + 1) % NumPlayers(state)

\* C7 as stated: for any sequence of calls every change of phase follows
\* rolling -> selecting -> moving -> turnEnd -> rolling, or is the auto-skip.
C7_AnyCallFollowsCycle ==
    [][opCount' = opCount + 1 => PhaseEdgesOK]_vars

\* C7 amended: as long as every call is made in its phase (RollDice in
\* rolling, SelectPiece in selecting, OnMoveComplete in moving, NextTurn in
\* turnEnd) every change of phase follows the cycle or is the auto-skip.
C7_InPhaseCallsFollowCycle ==
    [][(opCount' = opCount + 1 /\ respecting') => PhaseEdgesOK]_vars

\* a whole turn was played in phase and NextTurn has closed it
C7_Witness ==
    /\ respecting
    /\ lastOp.op = "nextTurn"
    /\ opCount >= 4
    /\ state.phase = "rolling"

\* C8 as stated: for any sequence of calls at most one pieceMoving is
\* emitted without a pieceLanded after it.
C8_OneMoveInFlight == inFlight <= 1

\* C8 amended: as long as every call is made in its phase, at most one
\* pieceMoving is emitted without a pieceLanded after it.
C8_InPhaseOneMoveInFlight == respecting => inFlight <= 1

\* a move is in flight after in-phase calls only
C8_Witness ==
    /\ respecting
    /\ inFlight = 1
    /\ state.phase = "moving"
    /\ lastOp.op = "selectPiece"

\* C9: RollDice called when every piece of the current player is locked
\* ends with the next player current, no dice value, no selection and phase
\* rolling, returns the rolled value and emits exactly diceRolled(value),
\* phaseChanged(selecting), turnEnd, phaseChanged(rolling).
C9_AutoSkip ==
    [][(IsCall("rollDice") /\ Locked(state, state.currentPlayerIndex)) =>
          /\ state'.currentPlayerIndex
                = (state.currentPlayerIndex + 1) % NumPlayers(state)
          /\ state'.diceValue = null
          /\ state'.selectedPieceId = null
          /\ state'.phase = "rolling"
          /\ state'.players = state.players
          /\ lastOp'.ret \in 1..6
          /\ events' = << [type |-> "diceRolled", value |-> lastOp'.ret],
                          [type |-> "phaseChanged", phase |-> "selecting"],
                          [type |-> "turnEnd"],
                          [type |-> "phaseChanged", phase |-> "rolling"] >>]_vars

\* RollDice has skipped the turn of a player whose pieces are all locked
C9_Witness ==
    /\ lastOp.op = "rollDice"
    /\ Len(events) = 4
    /\ Locked(state, (state.currentPlayerIndex + NumPlayers(state) - 1) % NumPlayers(state))
    /\ state.phase = "rolling"

\* C10: RollDice called when the current player has an unlocked piece
\* stores a value v in 1..6, sets the phase to selecting, emits exactly
\* diceRolled(v), phaseChanged(selecting), returns v and leaves the current
\* player, the selection and every piece unchanged.
C10_RollWithMovablePiece ==
    [][(IsCall("rollDice") /\ ~Locked(state, state.currentPlayerIndex)) =>
          /\ lastOp'.ret \in 1..6
          /\ state'.diceValue = lastOp'.ret
          /\ state'.phase = "selecting"
          /\ events' = << [type |-> "diceRolled", value |-> lastOp'.ret],
                          [type |-> "phaseChanged", phase |-> "selecting"] >>
          /\ state'.currentPlayerIndex = state.currentPlayerIndex
          /\ state'.selectedPieceId = state.selectedPieceId
          /\ state'.players = state.players]_vars

\* RollDice has stored its value for a player who can move
C10_Witness ==
    /\ lastOp.op = "rollDice"
    /\ state.phase = "selecting"
    /\ state.diceValue = lastOp.ret
    /\ ~Locked(state, state.currentPlayerIndex)
    /\ Len(events) = 2

\* The piece of the current player of s with the given id (its index)
PieceIndex(s, pieceId) ==
    CHOOSE k \in DOMAIN s.players[s.currentPlayerIndex].pieces :
        s.players[s.currentPlayerIndex].pieces[k].id = pieceId

\* SelectPiece(pieceId) is called on an unlocked piece of the current
\* player, in phase selecting, with a dice value whose target differs from
\* the piece's cell
SelectAccepted(s, pieceId) ==
    LET player == s.players[s.currentPlayerIndex] IN
    /\ s.phase = "selecting"
    /\ s.diceValue # null
    /\ \E k \in DOMAIN player.pieces :
          /\ player.pieces[k].id = pieceId
          /\ ~player.pieces[k].isAtCheckpoint
          /\ calculateTarget(player.pieces[k].cellIndex, s.diceValue)
                # player.pieces[k].cellIndex

\* C11: SelectPiece(pieceId) in phase selecting with dice value d, on an
\* unlocked piece of the current player at cell from with to =
\* calculateTarget(from, d) # from, records the selection, sets the phase to
\* moving, emits exactly pieceSelected then pieceMoving(player, pieceId,
\* from, to) and changes no piece, nor the dice value, nor the current player.
C11_SelectMoves ==
    [][(IsCall("selectPiece") /\ SelectAccepted(state, lastOp'.arg)) =>
          LET pieceId == lastOp'.arg
              player  == state.players[state.currentPlayerIndex]
              from    == player.pieces[PieceIndex(state, pieceId)].cellIndex
              to      == calculateTarget(from, state.diceValue)
          IN /\ state'.selectedPieceId = pieceId
             /\ state'.phase = "moving"
             /\ events' = << [type |-> "pieceSelected", playerId |-> player.id,
                              pieceId |-> pieceId],
                             [type |-> "pieceMoving", playerId |-> player.id,
                              pieceId |-> pieceId, from |-> from, to |-> to] >>
             /\ state'.players = state.players
             /\ state'.diceValue = state.diceValue
             /\ state'.currentPlayerIndex = state.currentPlayerIndex]_vars

\* SelectPiece has accepted a piece and announced its move
C11_Witness ==
    /\ lastOp.op = "selectPiece"
    /\ state.phase = "moving"
    /\ state.selectedPieceId = lastOp.arg
    /\ Len(events) = 2
    /\ events[2].type = "pieceMoving"
    /\ events[2].to # events[2].from

\* C12: OnMoveComplete with a selected piece and a dice value d sets that
\* piece's cell to t = calculateTarget(old cell, d) and its lock flag to
\* (t in {25, 52, 56}), emits pieceLanded(player, piece, t) then
\* phaseChanged(turnEnd) and sets the phase to turnEnd, leaving every other
\* piece, the current player and the dice value unchanged; without a
\* selected piece or without a dice value it changes and emits nothing.
C12_MoveCompleteEffect ==
    [][IsCall("onMoveComplete") =>
          IF state.selectedPieceId # null /\ state.diceValue # null
          THEN LET i == state.currentPlayerIndex
                   k == PieceIndex(state, state.selectedPieceId)
                   t == calculateTarget(state.players[i].pieces[k].cellIndex,
                                        state.diceValue)
               IN /\ state'.players[i].pieces[k].cellIndex = t
                  /\ state'.players[i].pieces[k].isAtCheckpoint = (t \in {25, 52, 56})
                  /\ events' = << [type |-> "pieceLanded", playerId |-> state.players[i].id,
                                   pieceId |-> state.selectedPieceId, cellIndex |-> t],
                                  [type |-> "phaseChanged", phase |-> "turnEnd"] >>
                  /\ state'.phase = "turnEnd"
                  /\ \A j \in DOMAIN state.players :
                        \A q \in DOMAIN state.players[j].pieces :
                          <<j, q>> # <<i, k>> =>
                            state'.players[j].pieces[q] = state.players[j].pieces[q]
                  /\ DOMAIN state'.players = DOMAIN state.players
                  /\ state'.currentPlayerIndex = i
                  /\ state'.diceValue = state.diceValue
          ELSE state' = state /\ events' = <<>>]_vars

\* OnMoveComplete has landed the selected piece on checkpoint 25 and locked it
C12_Witness ==
    /\ lastOp.op = "onMoveComplete"
    /\ Len(events) = 2
    /\ events[1].type = "pieceLanded"
    /\ events[1].cellIndex = 25
    /\ state.players[events[1].playerId].pieces[events[1].pieceId].isAtCheckpoint
    /\ state.phase = "turnEnd"

\* C14: NextTurn sets the current player index to (index + 1) mod
\* playerCount, clears the dice value and the selection, sets the phase to
\* rolling, emits exactly turnEnd then phaseChanged(rolling) and changes no
\* piece and not the player list.
C14_NextTurnEffect ==
    [][IsCall("nextTurn") =>
          /\ state'.currentPlayerIndex
                = (state.currentPlayerIndex + 1) % NumPlayers(state)
          /\ state'.diceValue = null
          /\ state'.selectedPieceId = null
          /\ state'.phase = "rolling"
          /\ events' = << [type |-> "turnEnd"],
                          [type |-> "phaseChanged", phase |-> "rolling"] >>
          /\ state'.players = state.players]_vars

\* NextTurn has wrapped the turn around from the last player to player 0
C14_Witness ==
    /\ lastOp.op = "nextTurn"
    /\ NumPlayers(state) = 2
    /\ state.currentPlayerIndex = 0
    /\ state.phase = "rolling"
    /\ Len(events) = 2

\* C17: for every start in 56..60 and steps in 0..6 with start + steps >= 60
\* calculateTarget(start, steps) = 60, whatever steps remain; in particular
\* calculateTarget(58, 6) = 60 and a piece at 60 has target 60 for every roll.
C17_EndClamp ==
    (calc.pc # "idle" /\ calc.startCell >= 56 /\ calc.startCell + calc.steps >= 60) =>
        /\ calculateTarget(calc.startCell, calc.steps) = 60
        /\ calc.pc = "done" => calc.result = 60

\* calculateTarget(58, 6) has returned 60 with steps left over
C17_Witness ==
    /\ calc.pc = "done"
    /\ calc.startCell = 58
    /\ calc.steps = 6
    /\ calc.i < calc.steps - 1
    /\ calc.result = 60

Landings(evs) == {i \in 1..Len(evs) : evs[i].type = "pieceLanded"}

\* This step keeps the announcement of the move in flight: the first
\* pieceLanded after a pieceMoving is for the same player and piece and
\* carries the announced cell, and while a pieceMoving waits for its
\* pieceLanded the piece's stored cell is the announced `from`.
AnnouncementKept ==
    /\ (pending.type = "pieceMoving" /\ Landings(events') # {}) =>
          LET e == events'[SetMin(Landings(events'))] IN
          /\ e.playerId = pending.playerId
          /\ e.pieceId = pending.pieceId
          /\ e.cellIndex = pending.to
    /\ pending'.type = "pieceMoving" =>
          state'.players[pending'.playerId].pieces[pending'.pieceId].cellIndex
              = pending'.from

\* C13 as stated: for every pieceMoving(player, piece, from, to) the next
\* pieceLanded is for the same player and piece with cellIndex = to, and the
\* piece's stored cell stays from in between, whatever is called in between.
C13_LandsWhereAnnounced ==
    [][opCount' = opCount + 1 => AnnouncementKept]_vars

\* C13 amended: the same, as long as every operation is called in the phase
\* it is meant for.
C13_InPhaseLandsWhereAnnounced ==
    [][(opCount' = opCount + 1 /\ respecting') => AnnouncementKept]_vars

\* after in-phase calls a piece announced to stop at checkpoint 25 has
\* landed there
C13_Witness ==
    /\ respecting
    /\ lastOp.op = "onMoveComplete"
    /\ pending = NoMove
    /\ Len(events) = 2
    /\ events[1].type = "pieceLanded"
    /\ events[1].cellIndex = 25

\* players as the constructor is to build them: ids 0..count-1, each with
\* pieces 0, 1, 2 at cell 0, unlocked
NewPlayers(count) ==
    [i \in 0..(count - 1) |->
        [id |-> i,
         pieces |-> [p \in 0..2 |-> [id |-> p, cellIndex |-> 0, isAtCheckpoint |-> FALSE]]]]

\* C15: Initialize(numPlayers) creates min(numPlayers, 4) players with ids
\* 0..count-1, each with pieces 0, 1, 2 at cell 0 and unlocked, phase
\* rolling, current player 0 (a valid index), no dice value, no selection;
\* the number of players and the three pieces of each never change.
C15_Construction ==
    LET count == IF numPlayersArg < 4 THEN numPlayersArg ELSE 4 IN
    /\ lastOp.op = "new" =>
          /\ state.players = NewPlayers(count)
          /\ state.phase = "rolling"
          /\ state.currentPlayerIndex = 0
          /\ 0 \in DOMAIN state.players
          /\ state.diceValue = null
          /\ state.selectedPieceId = null
    /\ DOMAIN state.players = 0..(count - 1)
    /\ \A i \in DOMAIN state.players :
          /\ state.players[i].id = i
          /\ DOMAIN state.players[i].pieces = 0..2
          /\ \A p \in 0..2 : state.players[i].pieces[p].id = p

\* a game constructed for 5 players has 4, and still has after a played turn
C15_Witness ==
    /\ numPlayersArg = 5
    /\ Cardinality(DOMAIN state.players) = 4
    /\ lastOp.op = "nextTurn"
    /\ state.currentPlayerIndex = 1
    /\ \E p \in 0..2 : state.players[0].pieces[p].cellIndex > 0

\* The stages of the first turn of a fresh 2-player game in which player 0
\* rolls d and moves piece p
Fresh2 ==
    [players |-> NewPlayers(2), currentPlayerIndex |-> 0, diceValue |-> null,
     phase |-> "rolling", selectedPieceId |-> null]

Rolled2(d) == [Fresh2 EXCEPT !.diceValue = d, !.phase = "selecting"]

Selected2(d, p) == [Rolled2(d) EXCEPT !.selectedPieceId = p, !.phase = "moving"]

MovedPlayers2(d, p) ==
    [NewPlayers(2) EXCEPT ![0].pieces[p] = [id |-> p, cellIndex |-> d, isAtCheckpoint |-> FALSE]]

IsMoved2(s, d, p) ==
    /\ s.players = MovedPlayers2(d, p)
    /\ s.phase = "turnEnd"
    /\ s.currentPlayerIndex = 0
    /\ s.diceValue = d

\* C16: in a fresh 2-player game, for every d in 1..6 and piece p of player
\* 0, RollDice yielding d, SelectPiece(p), OnMoveComplete, NextTurn emits
\* pieceMoving(0, p, 0, d), leaves piece p at cell d, unlocked, in phase
\* turnEnd after OnMoveComplete, and after NextTurn player 1 is current, the
\* dice value is cleared and the phase is rolling.
C16_FirstTurn ==
    [][LET d == IF IsCall("rollDice") THEN lastOp'.ret ELSE state.diceValue
           p == IF IsCall("selectPiece") THEN lastOp'.arg ELSE state.selectedPieceId
       IN
       /\ (IsCall("rollDice") /\ state = Fresh2)
             => d \in 1..6 /\ state' = Rolled2(d)
       /\ (IsCall("selectPiece") /\ d \in 1..6 /\ p \in 0..2 /\ state = Rolled2(d))
             => /\ state' = Selected2(d, p)
                /\ \E i \in 1..Len(events') :
                      events'[i] = [type |-> "pieceMoving", playerId |-> 0,
                                    pieceId |-> p, from |-> 0, to |-> d]
       /\ (IsCall("onMoveComplete") /\ d \in 1..6 /\ p \in 0..2 /\ state = Selected2(d, p))
             => IsMoved2(state', d, p)
       /\ (IsCall("nextTurn") /\ d \in 1..6)
             => \A q \in 0..2 :
                   IsMoved2(state, d, q)
                      => /\ state'.players = MovedPlayers2(d, q)
                         /\ state'.currentPlayerIndex = 1
                         /\ state'.diceValue = null
                         /\ state'.phase = "rolling"]_vars

\* the spec's instance: after the four calls with d = 3 and p = 0
C16_Witness ==
    /\ opCount = 4
    /\ lastOp.op = "nextTurn"
    /\ state.players = MovedPlayers2(3, 0)
    /\ state.currentPlayerIndex = 1
    /\ state.diceValue = null
    /\ state.phase = "rolling"

\* C18: every piece's cell index is in 0..60 in every reachable state and no
\* operation decreases a piece's cell index.
C18_CellsInRangeAndMonotone ==
    /\ [](\A i \in DOMAIN state.players : \A k \in DOMAIN state.players[i].pieces :
             state.players[i].pieces[k].cellIndex \in 0..60)
    /\ [][\A i \in DOMAIN state.players : \A k \in DOMAIN state.players[i].pieces :
             state'.players[i].pieces[k].cellIndex
                 >= state.players[i].pieces[k].cellIndex]_vars

\* a piece has been moved onto cell 60
C18_Witness ==
    /\ lastOp.op = "onMoveComplete"
    /\ Len(events) = 2
    /\ events[1].type = "pieceLanded"
    /\ events[1].cellIndex = 60
    /\ state.players[events[1].playerId].pieces[events[1].pieceId].cellIndex = 60

\* C19: once a piece's lock flag is true, its cell index and lock flag never
\* change again.
C19_LockedNeverMoves ==
    [][\A i \in DOMAIN state.players : \A k \in DOMAIN state.players[i].pieces :
          state.players[i].pieces[k].isAtCheckpoint =>
              state'.players[i].pieces[k] = state.players[i].pieces[k]]_vars

\* C20: each emit invokes every currently registered subscriber exactly
\* once, in registration order, before it returns.
C20_EmitInvokesAllInOrder ==
    [][bus'.emitted = bus.emitted + 1 => bus'.invoked = bus.handlers]_vars

\* C21: an exception raised inside one subscriber during an emission does
\* not keep the event from the subscribers registered after it and does not
\* leave emit, so the operation that emitted goes on.
C21_ThrowingSubscriberIsolated ==
    [][bus'.emitted = bus.emitted + 1 =>
          /\ Len(bus'.invoked) = Len(bus.handlers)
          /\ ~bus'.threw]_vars

Moves == orch.moves

HasEvent(evs, type) == \E i \in 1..Len(evs) : evs[i].type = type

\* C22: in the orchestrated system every pieceMoving event gets exactly one
\* onMoveComplete, called only once the awaited animation has done all its
\* hops and never inside the selectPiece call that emitted the event, so
\* pieceLanded comes after selectPiece has returned and after the hops.
C22_OneCompletionAfterAnimation ==
    /\ [](/\ inFlight <= 1
          /\ \A i \in DOMAIN Moves :
                /\ Moves[i].completes <= 1
                /\ Moves[i].completes = 1 => Moves[i].hopsLeft = 0)
    /\ [][IsCall("onMoveComplete") =>
             \E i \in DOMAIN Moves :
                /\ Moves[i].completes = 0
                /\ Moves[i].hopsLeft = 0
                /\ orch'.moves[i].completes = 1
                /\ \A j \in DOMAIN Moves \ {i} : orch'.moves[j] = Moves[j]
                /\ pending = [type |-> "pieceMoving", playerId |-> Moves[i].playerId,
                              pieceId |-> Moves[i].pieceId, from |-> Moves[i].from,
                              to |-> Moves[i].to]]_vars
    /\ [][IsCall("selectPiece") =>
             /\ ~HasEvent(events', "pieceLanded")
             /\ HasEvent(events', "pieceMoving") =>
                   /\ Len(orch'.moves) = Len(Moves) + 1
                   /\ orch'.moves[Len(orch'.moves)].completes = 0
                   /\ orch'.moves[Len(orch'.moves)].hopsLeft
                         = events'[Len(events')].to - events'[Len(events')].from]_vars
    /\ [][HasEvent(events', "pieceLanded") /\ events' # events => IsCall("onMoveComplete")]_vars
    /\ [][MicrotaskPending => IsCall("onMoveComplete")]_vars
    /\ (\E i \in DOMAIN Moves : Moves[i].hopsLeft > 0)
          ~> (\A i \in DOMAIN Moves : Moves[i].hopsLeft = 0)

\* a move of three hops has been completed
C22_Witness ==
    /\ lastOp.op = "onMoveComplete"
    /\ Len(Moves) = 1
    /\ Moves[1].completes = 1
    /\ Moves[1].to - Moves[1].from = 3
    /\ HasEvent(events, "pieceLanded")

\* The engine execution a call of `op` with argument arg returning ret runs
\* when every emit returns
FullRun(op, arg, ret) ==
    IF op = "rollDice" THEN rollDice(Begin, ret)
    ELSE IF op = "selectPiece" THEN selectPiece(Begin, arg)
    ELSE IF op = "onMoveComplete" THEN onMoveComplete(Begin)
    ELSE nextTurn(Begin)

\* C23: an error thrown while the orchestrator handles an event is caught
\* in the handler and shown by showError; it never leaves the handler into
\* EventBus.emit or the engine, so every engine operation runs to its end:
\* after a failing pieceLanded handler the engine still enters turnEnd and
\* emits phaseChanged(turnEnd).
C23_HandlerErrorsContained ==
    /\ [](/\ ~bus.threw
          /\ orch.rejections = 0
          /\ Len(orch.diags) = orch.thrown)
    /\ [][opCount' = opCount + 1 =>
             LET full == FullRun(lastOp'.op, lastOp'.arg, lastOp'.ret) IN
             /\ events' = full.events
             /\ state' = full.state]_vars
    /\ [][(IsCall("onMoveComplete") /\ HasEvent(events', "pieceLanded")) =>
             /\ orch'.diags = Append(orch.diags, "pieceLanded")
             /\ state'.phase = "turnEnd"
             /\ events'[Len(events')] = [type |-> "phaseChanged", phase |-> "turnEnd"]]_vars

\* the pieceLanded handler has failed, its error was shown, and the turn
\* has ended all the same
C23_Witness ==
    /\ lastOp.op = "onMoveComplete"
    /\ state.phase = "turnEnd"
    /\ orch.diags = <<"pieceLanded">>
    /\ orch.thrown = 1

\* The animateHop call the scheduler keeps, and the springs it drives
Hop == springs.hop

HopSet == springs.pieces[Hop.key]

\* All six springs of a set have stopped at their rest values
SixAtRest(set) == \A n \in SpringNames : isAtRest(set[n]) /\ ~set[n].anim

Last(seq) == seq[Len(seq)]

HopPhases == <<"crouch", "launch", "midAir", "land", "settle">>

\* C24: animateHop on a registered piece with n >= 1 targets makes exactly n
\* hops, the k-th to the k-th target; the crouch of a later hop starts, and
\* the promise resolves, only once all six springs are at rest after the
\* hop before.
C24_HopsInOrderAfterFullRest ==
    /\ [](Hop.pc = "settle" /\ Hop.waiting = {} => SixAtRest(HopSet))
    /\ [][(Hop'.trace # Hop.trace /\ Last(Hop'.trace) = "crouch")
             => \/ /\ springOp'.name = "animateHop"
                   /\ Hop'.k = 1 /\ Hop'.trace = <<"crouch">>
                   /\ Len(Hop'.targets) >= 1
                \/ /\ Hop.pc = "settle" /\ Hop.waiting = {} /\ SixAtRest(HopSet)
                   /\ Hop'.targets = Hop.targets
                   /\ Hop'.k = Hop.k + 1 /\ Hop'.k <= Len(Hop.targets)]_vars
    /\ [][(Hop.pc = "crouchDelay" /\ Hop'.pc = "launchDelay")
             => /\ HopSet'.posX.to = Hop.targets[Hop.k].x
                /\ HopSet'.posZ.to = Hop.targets[Hop.k].z
                /\ HopSet'.posY.to = Hop.targets[Hop.k].y + 150]_vars
    /\ [][(Hop'.pc = "resolved" /\ Hop.pc # "resolved")
             => /\ Hop.pc = "settle" /\ Hop.waiting = {} /\ SixAtRest(HopSet)
                /\ Hop.k = Len(Hop.targets)
                /\ Len(Hop.trace) = 5 * Len(Hop.targets)
                /\ Len(SelectSeq(Hop.trace, LAMBDA p : p = "crouch")) = Len(Hop.targets)]_vars

\* a call with two targets has resolved after its two hops
C24_Witness ==
    Hop.pc = "resolved" /\ Len(Hop.targets) = 2 /\ Len(Hop.trace) = 10

IsSpringCall(name) == springOp'.n = springOp.n + 1 /\ springOp'.name = name

\* The rest values a set has after the idle nudge of the instant t
Nudged(set, key, t) ==
    /\ set.posY.to = set.basePos.y + t.sin2[key] * 8
    /\ set.scaleY.to = REST_SCALE_Y + t.sin3[key] * 3
    /\ set.scaleX.to = REST_SCALE_X - t.sin3[key] * 2
    /\ set.scaleZ.to = REST_SCALE_Z - t.sin3[key] * 2

\* C26: a piece's hopping flag is set exactly while an animateHop on it has
\* not resolved; update leaves every spring of a hopping piece as it is and
\* gives every other piece its idle targets.
C26_IdleNudgeSuppressedWhileHopping ==
    /\ [](\A key \in DOMAIN springs.pieces :
             springs.pieces[key].hopping
                <=> (Hop.key = key /\ Hop.pc \notin {"none", "resolved"}))
    /\ [][IsSpringCall("update")
             => \E t \in Instants :
                   \A key \in DOMAIN springs.pieces :
                      IF springs.pieces[key].hopping
                      THEN springs'.pieces[key] = springs.pieces[key]
                      ELSE /\ Nudged(springs'.pieces[key], key, t)
                           /\ ~springs'.pieces[key].hopping]_vars

\* update is called in the middle of a hop of one piece and sets the other
\* piece breathing
C26_Witness ==
    /\ springOp.name = "update"
    /\ springs.pieces[KeyA].hopping /\ Hop.pc = "midAir"
    /\ springs.pieces[KeyB].posY.anim

RestScale == Vec(REST_SCALE_X, REST_SCALE_Y, REST_SCALE_Z)

\* C27: when update is called right after an animateHop has resolved, the
\* piece is reported at the last target with the rest scale, its six
\* springs are at rest, its base position is the last target and it is not
\* hopping.
C27_RestsAtFinalTarget ==
    [][(IsSpringCall("update") /\ springOp.name = "continuation" /\ Hop.pc = "resolved")
          => /\ springs'.states[Hop.key].position = Last(Hop.targets)
             /\ springs'.states[Hop.key].scale = RestScale
             /\ SixAtRest(HopSet)
             /\ HopSet.basePos = Last(Hop.targets)
             /\ ~HopSet.hopping]_vars

\* C28: an animateHop that has started can always go on to its end: a
\* spring it waits for is animating, so that its coming to rest will be
\* notified and the wait ended.
C28_HopRunsToCompletion ==
    (Hop.pc \in {"midAir", "settle"}) => \A n \in Hop.waiting : HopSet[n].anim

\* C29: setPosition on a registered piece leaves its six springs stopped
\* with current value and rest value both at the position given, or at the
\* rest scale; the base position is that position; the hopping flag and the
\* other pieces are as before.
C29_SetPositionSnaps ==
    [][(IsSpringCall("setPosition") /\ springOp'.key \in DOMAIN springs.pieces)
          => LET key == springOp'.key
                 position == springOp'.position
                 set == springs'.pieces[key]
             IN  /\ \A n \in SpringNames : ~set[n].anim /\ set[n].cur = set[n].to
                 /\ snapshot(set) = [position |-> position, scale |-> RestScale]
                 /\ set.basePos = position
                 /\ set.hopping = springs.pieces[key].hopping
                 /\ \A other \in DOMAIN springs.pieces \ {key} :
                       springs'.pieces[other] = springs.pieces[other]]_vars

\* a piece is snapped away in the middle of its hop, while the other piece
\* goes on breathing
C29_Witness ==
    /\ springOp.name = "setPosition" /\ springOp.key = KeyA
    /\ Hop.pc = "midAir" /\ Hop.waiting # {}
    /\ HopSet.hopping /\ HopSet.basePos # Cell(0)
    /\ springs.pieces[KeyB].posY.anim

\* C30: setPosition and animateHop for a piece that was never added, and
\* animateHop with no target, change no spring, base position or hopping
\* flag and no wait of a hop under way; the animateHop promise is resolved
\* when the call returns.
C30_MissingInputIsNoOp ==
    /\ [][(IsSpringCall("setPosition") /\ springOp'.key \notin DOMAIN springs.pieces)
             => springs'.pieces = springs.pieces /\ springs'.hop = springs.hop]_vars
    /\ [][(/\ IsSpringCall("animateHop")
           /\ \/ springOp'.key \notin DOMAIN springs.pieces
              \/ springOp'.targets = <<>>)
             => /\ springs'.pieces = springs.pieces
                /\ springs'.hop = springs.hop
                /\ springs'.returned]_vars

\* animateHop is called with no target for a piece in the middle of a hop
C30_Witness ==
    /\ springOp.name = "animateHop" /\ springOp.key = KeyA
    /\ springOp.targets = <<>> /\ springs.returned
    /\ Hop.pc = "midAir" /\ springs.pieces[KeyA].posX.anim

\* C31: the current value of a spring changes only in a call of update (or
\* of setPosition): no timer, frame or continuation in between changes what
\* update would report.
C31_OnlyUpdateAdvancesSprings ==
    [][(~IsSpringCall("update") /\ ~IsSpringCall("setPosition"))
          => \A key \in DOMAIN springs.pieces :
                snapshot(springs'.pieces[key]) = snapshot(springs.pieces[key])]_vars

\* C32: a call of update returns exactly one entry for every registered
\* piece, hopping or not, holding the current values of its springs; writing
\* into a returned entry changes no spring, no base position and no hop, and
\* so nothing a later call of update reports.
C32_OneCopiedEntryPerPiece ==
    [][/\ IsSpringCall("update")
          => /\ DOMAIN springs'.states = DOMAIN springs.pieces
             /\ DOMAIN springs'.pieces = DOMAIN springs.pieces
             /\ \A key \in DOMAIN springs.pieces :
                   /\ springs'.states[key] = snapshot(springs'.pieces[key])
                   /\ snapshot(springs'.pieces[key]) = snapshot(springs.pieces[key])
       /\ springOp'.name = "consumerWrite"
          => /\ springs'.pieces = springs.pieces
             /\ springs'.hop = springs.hop
             /\ \E key \in DOMAIN springs.states :
                   springs'.states[key] # snapshot(springs.pieces[key])]_vars

\* the caller has written into the entry of a piece that is in a hop
C32_Witness ==
    /\ springOp.name = "consumerWrite"
    /\ springs.pieces[KeyA].hopping
    /\ springs.states[KeyA].position = Vec(0 - 100, 0 - 100, 0 - 100)
    /\ DOMAIN springs.states = {KeyA, KeyB}

\* the first checkpoint of the track
FirstCheckpoint == SetMin(CHECKPOINT_CELLS)

\* C33: when every call is made in its phase, every piece stays on the cells
\* 0..25: no piece is on a cell after the first checkpoint, and no move
\* under way leads to one.
C33_NoPiecePassesFirstCheckpoint ==
    /\ FirstCheckpoint = 25
    /\ \A i \in DOMAIN state.players :
          \A k \in DOMAIN state.players[i].pieces :
             /\ state.players[i].pieces[k].cellIndex \in 0..FirstCheckpoint
             /\ state.players[i].pieces[k].isAtCheckpoint
                   => state.players[i].pieces[k].cellIndex = FirstCheckpoint
    /\ \A j \in DOMAIN events :
          /\ events[j].type = "pieceMoving" => events[j].to \in 1..FirstCheckpoint
          /\ events[j].type = "pieceLanded" => events[j].cellIndex \in 1..FirstCheckpoint

\* a piece six cells or less before the checkpoint has moved with a roll
\* that would carry it further, and has landed on 25
C33_Witness ==
    /\ lastOp.op = "onMoveComplete"
    /\ state.diceValue = 6
    /\ \E j \in DOMAIN events :
          /\ events[j].type = "pieceLanded"
          /\ events[j].cellIndex = FirstCheckpoint
    /\ \E i \in DOMAIN state.players :
          \E k \in DOMAIN state.players[i].pieces :
             state.players[i].pieces[k].cellIndex = 20

AllLocked == \A i \in DOMAIN state.players : Locked(state, i)

RECURSIVE SumCells(_, _)
SumCells(s, n) ==
    IF n = 0 THEN 0
    ELSE SumCells(s, n - 1)
         + s.players[(n - 1) \div PIECES_PER_PLAYER].pieces[(n - 1) % PIECES_PER_PLAYER].cellIndex

\* the cells all pieces together have advanced from the start
Advance(s) == SumCells(s, NumPlayers(s) * PIECES_PER_PLAYER)

\* C34: a game played in phase and fairly comes to a position in which every
\* piece of every player is locked, and stays there; from then on every
\* rollDice is skipped back to phase rolling without a move. Every completed
\* move advances a piece by at least one cell and the pieces together never
\* stand more than 25 * 3 * playerCount cells from the start, which bounds
\* the number of moves of a game.
C34_GameEndsAllLocked ==
    /\ <>[]AllLocked
    /\ [][AllLocked /\ lastOp'.op = "rollDice"
             => /\ state'.phase = "rolling"
                /\ state'.players = state.players
                /\ \A j \in DOMAIN events' : events'[j].type # "pieceMoving"]_vars
    /\ [][lastOp'.op = "onMoveComplete" => Advance(state') >= Advance(state) + 1]_vars
    /\ [][lastOp'.op # "onMoveComplete" => Advance(state') = Advance(state)]_vars
    /\ [](Advance(state) <= 25 * PIECES_PER_PLAYER * NumPlayers(state))

\* the move that locks the last free piece of a game of two has been
\* completed
C34_Witness ==
    /\ AllLocked
    /\ NumPlayers(state) = 2
    /\ lastOp.op = "onMoveComplete"
    /\ state.phase = "turnEnd"

\* C35: whenever rollDice has returned with the phase selecting, selectPiece
\* on some piece of the current player would start a move.
C35_NoDeadEndInSelecting ==
    (lastOp.op = "rollDice" /\ state.phase = "selecting")
       => \E k \in DOMAIN getCurrentPlayer(state).pieces :
             selectPiece(Begin, getCurrentPlayer(state).pieces[k].id).state.phase = "moving"

\* no timeout set by the UIManager is pending
TimersFired == orch.ui.hideTimers = 0 /\ ~orch.ui.tracked /\ orch.ui.lost = 0

\* C36: whenever the engine is in phase rolling and every timeout of the
\* user interface has fired, the dice area and its roll button are shown.
C36_RollButtonShownInRolling ==
    (state.phase = "rolling" /\ TimersFired /\ ~MicrotaskPending)
       => (orch.ui.diceArea /\ orch.ui.diceBtn)

\* C37: a pieceLanded event is handled without an error of the handler: no
\* error is reported for it, and once the move is completed the cell the
\* piece landed on has been pressed and the camera has been released from
\* following the piece.
C37_LandingHandledInFull ==
    /\ \A j \in DOMAIN orch.diags : orch.diags[j] # "pieceLanded"
    /\ \A i \in DOMAIN orch.moves :
          orch.moves[i].completes > 0
             => /\ orch.pressed # null
                /\ (\A k \in DOMAIN orch.moves : orch.moves[k].stage = "done")
                      => ~orch.isFollowing

\* C38: for a pieceMoving(from, to) with 0 <= from < to <= 60, animateMove
\* pushes the cells from + 1, from + 2, ..., to, in that order: every pass of
\* its loop moves one cell closer to `to` without wrapping around the ring,
\* the loop ends after to - from passes, and for an event the engine emits
\* the number of hop targets is at most the dice value.
C38_OneHopPerCellOfTheMove ==
    /\ [](scene.op = "animateMove"
            => /\ scene.totalCells = TOTAL_CELLS
               /\ ~scene.wrapped
               /\ scene.current = scene.fromCell + Len(scene.targets)
               /\ scene.current <= scene.toCell
               /\ \A j \in DOMAIN scene.targets : scene.targets[j] = scene.fromCell + j
               /\ scene.pc = "animateHop"
                     => /\ Len(scene.targets) = scene.toCell - scene.fromCell
                        /\ scene.targets = animateMove_targets(scene.fromCell, scene.toCell)
                        /\ scene.dice # null => Len(scene.targets) <= scene.dice)
    /\ [][scene.op = "animateMove" /\ scene'.pc = "loop"
             => scene.toCell - scene'.current = scene.toCell - scene.current - 1]_vars

\* the targets of a move of six cells that the engine announces have been
\* handed to animateHop
C38_Witness ==
    /\ scene.op = "animateMove"
    /\ scene.pc = "animateHop"
    /\ scene.dice = 6
    /\ scene.fromCell = 26
    /\ scene.targets = <<27, 28, 29, 30, 31, 32>>

\* C39: when update of the pieces manager has packed the arrays, the piece
\* count handed to the shader is the number of pieces of the game, for every
\* number of players the engine constructs, and it is at most 8.
C39_EveryPieceReachesTheShader ==
    (scene.op = "update" /\ scene.pc = "done")
       => /\ scene.uPieceCount = NumPlayers(state) * PIECES_PER_PLAYER
          /\ scene.uPieceCount = Len(scene.metas)
          /\ scene.uPieceCount <= MAX_PIECES

\* the weight the layout is to give cell i
StatedWeight(i) == IF i = 0 THEN 4 ELSE IF i \in {25, 52, 56} THEN 3 ELSE 1

RECURSIVE WeightBefore(_)
WeightBefore(i) == IF i = 0 THEN 0 ELSE WeightBefore(i - 1) + StatedWeight(i - 1)

\* C40: buildCellConfigs returns 61 cells with the indices 0..60 in order;
\* cell 0 has weight 4, cells 25, 52 and 56 weight 3 and the others 1, 70 in
\* all; in weight units cell i spans from the weights of the cells before
\* it to that sum plus its own weight, so that each cell starts where the
\* one before it ends, the first at 0 and the last ends at 70; and the
\* checkpoint flag of a cell is isCheckpoint of its index.
C40_LayoutPartitionsRingByWeight ==
    scene.op = "buildCellConfigs"
       => /\ scene.pc \in {"build", "returned"} => scene.totalWeight = 70
          /\ \A j \in DOMAIN scene.cells :
                LET c == scene.cells[j] IN
                /\ c.index = j - 1
                /\ c.end - c.start = StatedWeight(c.index)
                /\ c.start = WeightBefore(c.index)
                /\ c.start < c.end
                /\ c.isCheckpoint = (c.index \in CHECKPOINT_CELLS)
                /\ c.isCheckpoint = isCheckpoint(c.index)
                /\ j = 1 => c.start = 0
                /\ j > 1 => c.start = scene.cells[j - 1].end
                /\ c.angleStart = c.totalWeight - c.end
                /\ c.angleEnd = c.totalWeight - c.start
          /\ scene.pc = "returned"
                => /\ Len(scene.cells) = 61
                   /\ scene.cells[Len(scene.cells)].end = 70
                   /\ scene.cells = buildCellConfigs

\* the layout has been built and returned
C40_Witness ==
    /\ scene.op = "buildCellConfigs"
    /\ scene.pc = "returned"
    /\ Len(scene.cells) = TOTAL_CELLS
    /\ scene.cells[57].isCheckpoint

====
